---- MODULE Spec2Model ----
(***************************************************************************)
(* State-machine model of the synthetic invoice / payment dataset          *)
(* generator (flopayments_ml): the Fattura validator, the configuration    *)
(* check of SyntheticDataGenerator.__init__, the five scenario generators  *)
(* and generate_dataset, the entry point main with its write-permission    *)
(* precheck, and the calls of the text Gateway (AITextGenerator).          *)
(*                                                                         *)
(* Conventions                                                             *)
(*   - a datetime is an integer number of ticks, TicksPerDay ticks a day;  *)
(*     a date (what Faker returns) is a datetime at midnight;              *)
(*   - a monetary amount is an integer number of mills (0.001 EUR), so     *)
(*     that one cent is CentMills mills;                                   *)
(*   - a confidence is an integer number of hundredths (1.0 = 100);        *)
(*   - uuid4() is a fresh integer (next_id);                               *)
(*   - a raised Python exception is the value of exc, and pc = "raised".   *)
(*                                                                         *)
(* Specifications                                                          *)
(*   - Spec: construction, then generate_dataset, over small               *)
(*     configurations;                                                     *)
(*   - SpecConfig: construction alone, over configurations large enough    *)
(*     for the pool check to refuse;                                       *)
(*   - SpecFattura: the Fattura constructor alone, over due dates around   *)
(*     both ends of its window;                                            *)
(*   - SpecMain: main, from the precheck to the export, over file systems  *)
(*     and environments;                                                   *)
(*   - SpecGateway: one call of the Gateway, over batches and remote       *)
(*     outcomes; SpecGatewayLive adds weak fairness of its steps;          *)
(*   - SpecCompanies: construction alone, over pools of more than eight    *)
(*     companies;                                                          *)
(*   - SpecSelect: construction, then one selection of companies;          *)
(*   - SpecBatch: generate_dataset with standalone invoices only, over     *)
(*     larger counts and batch sizes;                                      *)
(*   - SpecPayment: one call of generate_payment or of                     *)
(*     _generate_payments_batch, over every amount and timing pattern.     *)
(***************************************************************************)
EXTENDS Integers, Sequences, FiniteSets, TLC

(***************************************************************************)
(* Bounds of the model                                                     *)
(***************************************************************************)
\* largest requested count of a batched scenario in a configuration
MaxCount == 2
\* largest requested number of group payments in a configuration
MaxGroups == 1
\* largest company pool of a run of generate_dataset
MaxPool == 2
\* largest configured batch_size
MaxBatchSize == 2
\* largest number of scenario instances a configuration requests in total
MaxRequested == 2
\* resolution of a datetime: ticks per day
TicksPerDay == 2
\* largest scenario count and company count of a checked configuration
MaxConfigCount == 5
MaxConfigCompanies == 3
\* the constructor inputs of a Fattura: days of issuance, span of due days
MaxIssueDay == 1
DueDaySpan == 2

(***************************************************************************)
(* Arithmetic helpers                                                      *)
(***************************************************************************)
Abs(x) == IF x < 0 THEN -x ELSE x

Max2(a, b) == IF a >= b THEN a ELSE b

Min2(a, b) == IF a <= b THEN a ELSE b

RECURSIVE GCD(_, _)
GCD(a, b) == IF b = 0 THEN a ELSE GCD(b, a % b)

RECURSIVE SumSeq(_)
SumSeq(s) == IF s = <<>> THEN 0 ELSE Head(s) + SumSeq(Tail(s))

RECURSIVE MaxSeq(_)
MaxSeq(s) == IF Len(s) = 1 THEN s[1] ELSE Max2(Head(s), MaxSeq(Tail(s)))

RECURSIVE MinSeq(_)
MinSeq(s) == IF Len(s) = 1 THEN s[1] ELSE Min2(Head(s), MinSeq(Tail(s)))

\* the elements of a list
Range(s) == {s[i] : i \in 1..Len(s)}

\* timedelta(days=n)
Days(n) == n * TicksPerDay

\* datetime.replace(hour=0, minute=0, second=0, microsecond=0)
Midnight(t) == t - (t % TicksPerDay)

\* the calendar day of a datetime
DateOf(t) == t \div TicksPerDay

(***************************************************************************)
(* Python call semantics                                                   *)
(***************************************************************************)
\* the outcome of a call: a returned value or a raised exception
Return(v) == [exc |-> "none", value |-> v]

Raise(e) == [exc |-> e, value |-> <<>>]

(***************************************************************************)
(* core/data_models.py: Fattura                                            *)
(***************************************************************************)
\* the window of validate_scadenza_date: timedelta(days=90)
MaxScadenzaDays == 90

\* faulty variant: the due date is moved one day later and never checked
postpone_scadenza_date(v, data_emissione) == Return(v + Days(1))

\* faulty variant: a due date outside the window is clamped into it
clamp_scadenza_date(v, data_emissione) ==
    Return(Max2(Midnight(data_emissione),
                Min2(v, data_emissione + Days(MaxScadenzaDays))))

\* Fattura.validate_scadenza_date(v, info), with info.data['data_emissione']:
\* raises unless min_data_scadenza <= v <= max_data_scadenza, else returns v
validate_scadenza_date(v, data_emissione) ==
    LET min_data_scadenza == Midnight(data_emissione)
        max_data_scadenza == data_emissione + Days(MaxScadenzaDays)
    IN  IF ~(min_data_scadenza <= v /\ v <= max_data_scadenza)
        THEN Raise("ValidationError")
        ELSE Return(v)

\* Fattura(id=..., data_emissione=..., data_scadenza=..., importo=...,
\* prestatore=...): pydantic validates the fields in declaration order and
\* stores what the validators return; importo is a PositiveFloat
Fattura(id, data_emissione, data_scadenza, importo, prestatore) ==
    LET due == validate_scadenza_date(data_scadenza, data_emissione)
    IN  IF due.exc # "none" THEN Raise(due.exc)
        ELSE IF ~(importo > 0) THEN Raise("ValidationError")
        ELSE Return([id |-> id,
                     data_emissione |-> data_emissione,
                     data_scadenza |-> due.value,
                     importo |-> importo,
                     prestatore |-> prestatore])

\* a text of a payment: its fixed wording and the invoice numbers or the
\* months it embeds
Text(wording, refs) == [text |-> wording, refs |-> refs]

\* Transazione(id=..., data=..., dettaglio=..., importo=...,
\* tipologia_movimento="pagamento", controparte=..., causale=...,
\* invoice_number=...): the model declares no other field
Transazione(id, data, dettaglio, importo, controparte, causale, invoice_number) ==
    [id |-> id, data |-> data, dettaglio |-> dettaglio, importo |-> importo,
     tipologia_movimento |-> "pagamento",
     controparte |-> controparte, causale |-> causale,
     invoice_number |-> invoice_number]

(***************************************************************************)
(* core/data_types.py: GroundTruth, MatchType                              *)
(***************************************************************************)
MatchTypes == {"exact", "partial", "related", "unrelated"}

GroundTruth(fattura_id, pagamento_id, match_type, confidence, amount_covered) ==
    [fattura_id |-> fattura_id, pagamento_id |-> pagamento_id,
     match_type |-> match_type, confidence |-> confidence,
     amount_covered |-> amount_covered]

(***************************************************************************)
(* generators/synthetic_data_generator.py: configuration and entity pool   *)
(***************************************************************************)
ScenarioOrder ==
    << "perfect_1_1", "installments_1_n", "group_payment_n_1",
       "standalone_invoices", "standalone_payments" >>

Scenarios == {ScenarioOrder[i] : i \in 1..Len(ScenarioOrder)}

\* "Assume avg 3 invoices per group"
AvgGroupInvoices == 3

\* "At least 1 company per 10 invoices"
InvoicesPerCompany == 10

\* _validate_config: total_invoices
total_invoices(cfg) ==
    cfg.perfect_1_1 + cfg.installments_1_n
    + cfg.group_payment_n_1 * AvgGroupInvoices + cfg.standalone_invoices

\* faulty variant: the minimum without its floor of one company
no_floor_companies_needed(cfg) == total_invoices(cfg) \div InvoicesPerCompany

\* _validate_config: min_companies_needed
min_companies_needed(cfg) == Max2(1, total_invoices(cfg) \div InvoicesPerCompany)

\* _validate_config: ValueError when the pool is too small; a pool larger
\* than total_invoices only logs a warning
validate_config(cfg) ==
    IF cfg.num_companies < min_companies_needed(cfg)
    THEN Raise("ValueError")
    ELSE Return([warning |-> cfg.num_companies > total_invoices(cfg)])

\* self.sectors: eight sectors, in list order
NumSectors == 8

Sectors == 1..NumSectors

\* how many companies of cs have sector s
SectorCount(cs, s) == Cardinality({i \in 1..Len(cs) : cs[i].settore = s})

\* faulty variant: after the first round the most represented sectors
\* are chosen from
most_represented_sectors(cs, i) ==
    IF i < NumSectors
    THEN {i + 1}
    ELSE LET max_count == CHOOSE m \in 0..Len(cs) :
                              /\ \E s \in Sectors : SectorCount(cs, s) = m
                              /\ \A s \in Sectors : SectorCount(cs, s) <= m
         IN  {s \in Sectors : SectorCount(cs, s) = max_count}

\* generate_companies: the sector of company i (0-based), given the
\* companies made so far
SectorChoices(cs, i) ==
    IF i < NumSectors
    THEN {i + 1}
    ELSE LET min_count == CHOOSE m \in 0..Len(cs) :
                              /\ \E s \in Sectors : SectorCount(cs, s) = m
                              /\ \A s \in Sectors : SectorCount(cs, s) >= m
         IN  {s \in Sectors : SectorCount(cs, s) = min_count}

\* generate_companies(n): every list of companies the loop can build
RECURSIVE CompaniesFrom(_, _)
CompaniesFrom(cs, n) ==
    IF Len(cs) >= n
    THEN {cs}
    ELSE UNION { CompaniesFrom(Append(cs, [id |-> Len(cs) + 1, settore |-> s]), n)
                 : s \in SectorChoices(cs, Len(cs)) }

generate_companies(n) == CompaniesFrom(<<>>, n)

\* random.sample(pool, n): the arrangements of n distinct elements
RECURSIVE Arrangements(_, _)
Arrangements(S, n) ==
    IF n = 0
    THEN {<<>>}
    ELSE UNION { {<<c>> \o rest : rest \in Arrangements(S \ {c}, n - 1)} : c \in S }

\* faulty variant: every company is drawn from the whole pool
choice_with_replacement(selected, companies_pool, all, n) ==
    {selected \o rest : rest \in [1..(n - Len(selected)) -> all]}

\* the reuse loop of _select_companies_for_scenario: companies_pool is
\* refilled from self.companies whenever it runs empty
RECURSIVE ReuseLoop(_, _, _, _)
ReuseLoop(selected, companies_pool, all, n) ==
    IF ~(Len(selected) < n)
    THEN {selected}
    ELSE LET pool == IF companies_pool = {} THEN all ELSE companies_pool
         IN  UNION { ReuseLoop(Append(selected, c), pool \ {c}, all, n) : c \in pool }

\* _select_companies_for_scenario(n_items) over the pool cs (company ids)
select_companies_for_scenario(cs, n_items) ==
    LET all == {cs[i].id : i \in 1..Len(cs)}
    IN  IF n_items <= Len(cs)
        THEN Arrangements(all, n_items)
        ELSE ReuseLoop(<<>>, all, all, n_items)

\* a faulty variant of _chunk_list: only the chunks of exactly size items
RECURSIVE full_chunks_only(_, _)
full_chunks_only(items, size) ==
    IF Len(items) < size
    THEN <<>>
    ELSE <<SubSeq(items, 1, size)>>
         \o full_chunks_only(SubSeq(items, size + 1, Len(items)), size)

\* _chunk_list(items, size)
RECURSIVE chunk_list(_, _)
chunk_list(items, size) ==
    IF items = <<>>
    THEN <<>>
    ELSE <<SubSeq(items, 1, Min2(size, Len(items)))>>
         \o chunk_list(SubSeq(items, Min2(size, Len(items)) + 1, Len(items)), size)

(***************************************************************************)
(* Random draws: the sampled values of each random source                  *)
(***************************************************************************)
\* str(uuid) and UUID(str): the canonical text of a uuid and its parse
UuidStr(u) == <<"uuid", u>>

ParseUuid(s) == s[2]

\* fake.date_between(start_date='-1y', end_date='today'): a date of the
\* last year, as a day number counted from one year ago
OneYearDays == 365

FirstDay == 0

LastDay == FirstDay + OneYearDays

\* random.randint(30, 90): data_scadenza - data_emissione in days
ScadenzaMinDays == 30

ScadenzaMaxDays == 90

\* one sampled invoice: its date of issuance, the days to its due date and
\* its amount in mills
Draw(day, scadenza_days, importo) ==
    [data_emissione |-> Days(day), scadenza_days |-> scadenza_days,
     importo |-> importo]

\* np.random.lognormal(mean=7.5, sigma=1.0): any positive amount
LogNormalDraws ==
    { Draw(FirstDay, ScadenzaMinDays, 500000),
      Draw(LastDay, ScadenzaMaxDays, 1808042) }

\* amount_range=(2000, 15000): random.uniform(2000, 15000)
InstallmentDraws ==
    { Draw(FirstDay, ScadenzaMinDays, 2000000),
      Draw(LastDay, ScadenzaMaxDays, 2000020),
      Draw(FirstDay, ScadenzaMaxDays, 2000024),
      Draw(LastDay, ScadenzaMinDays, 15000000) }

\* one prepared invoice of _generate_invoices_batch: importo is uniform in
\* amount_range when one is given, else log-normal
BatchDraws(scenario_type, has_amount_range) ==
    IF has_amount_range THEN InstallmentDraws ELSE LogNormalDraws

\* one dummy invoice of generate_scenario_standalone_payments:
\* importo = random.uniform(50, 5000)
DummyDraws ==
    { Draw(FirstDay, ScadenzaMinDays, 50000),
      Draw(LastDay, ScadenzaMaxDays, 5000000) }

\* _generate_billing_period_invoices: the invoices of a billing period that
\* starts at PeriodStartDay; data_emissione is date_between(period_start,
\* period_end), drawn here on the first day, the last day of a weekly
\* period, or the day between; data_scadenza is
\* _generate_scadenza_date(data_emissione), and importo is
\* _generate_group_invoice_amount() = random.uniform(200, 2000)
PeriodStartDay == 100

WeekLastDay == 6

GroupDraws ==
    << Draw(PeriodStartDay, ScadenzaMinDays, 200000),
       Draw(PeriodStartDay + WeekLastDay, ScadenzaMaxDays, 400000),
       Draw(PeriodStartDay + (WeekLastDay \div 2), ScadenzaMinDays, 600000) >>

\* the sampled invoices of a group of n: the draws in cyclic order, from any
\* of them
GroupDrawSeqs(n) ==
    { [i \in 1..n |-> GroupDraws[((first + i - 1) % Len(GroupDraws)) + 1]]
      : first \in 0..(Len(GroupDraws) - 1) }

\* np.random.choice([2, 3, 4, 5], p=[0.4, 0.3, 0.2, 0.1])
GroupSizes == {2, 3, 4, 5}

\* random.randint(0, 15): days after the latest due date
GroupPaymentMaxDays == 15

\* the sampled payment of a group: random.uniform(0.98, 1.02) in percent,
\* and the days after the latest due date
GroupPaymentDraws ==
    { [multiplier |-> 98, days_after |-> 0],
      [multiplier |-> 100, days_after |-> GroupPaymentMaxDays],
      [multiplier |-> 102, days_after |-> 0] }

\* random.choice([2, 3, 4])
InstallmentCounts == {2, 3, 4}

(***************************************************************************)
(* Float arithmetic on amounts                                             *)
(***************************************************************************)
\* resolution of an amount below the cent: mills per cent
CentMills == 10

\* a / b rounded to the nearest integer (a >= 0, b > 0)
RoundDiv(a, b) == (2 * a + b) \div (2 * b)

\* the quotient a / b, kept as a fraction in lowest terms
Ratio(a, b) == LET g == GCD(a, b) IN [num |-> a \div g, den |-> b \div g]

\* the product ratio * x, to the nearest mill
Times(ratio, x) == RoundDiv(ratio.num * x, ratio.den)

\* base * p / 100, to the nearest mill
Percent(base, p) == RoundDiv(base * p, 100)

\* faulty variant: a / n truncated to whole cents
TruncateToCent(a, n) == {(a \div (n * CentMills)) * CentMills}

\* round(a / n, 2): the nearest whole cent; a quotient that falls half way
\* between two cents has no exact float and rounds to either
Round2(a, n) ==
    LET q == a \div (n * CentMills)
        r == a % (n * CentMills)
    IN  IF 2 * r < n * CentMills THEN {q * CentMills}
        ELSE IF 2 * r > n * CentMills THEN {(q + 1) * CentMills}
        ELSE {q * CentMills, (q + 1) * CentMills}

(***************************************************************************)
(* Pattern appliers (generate_payment, _generate_payments_batch)           *)
(***************************************************************************)
\* the multipliers random.uniform draws for an AmountPattern, in percent
AmountMultipliers(amount_pattern) ==
    CASE amount_pattern = "partial" -> {30, 80}
      [] amount_pattern = "excess" -> {101, 110}
      [] amount_pattern = "discount" -> {90, 98}
      [] amount_pattern = "penalty" -> {102, 105}

\* importo of a payment of an invoice of base_amount
PatternAmounts(base_amount, amount_pattern) ==
    IF amount_pattern \in {"partial", "excess", "discount", "penalty"}
    THEN {Percent(base_amount, m) : m \in AmountMultipliers(amount_pattern)}
    ELSE {base_amount}

\* days_offset of a TimingPattern
TimingOffsets(timing_pattern) ==
    CASE timing_pattern = "delayed" -> {91, 180}
      [] timing_pattern = "early" -> {-30, -1}
      [] timing_pattern = "same_day" -> {0}
      [] OTHER -> {0, 90}

\* data_pagamento
PatternDates(data_emissione, timing_pattern) ==
    {data_emissione + Days(d) : d \in TimingOffsets(timing_pattern)}

(***************************************************************************)
(* Text Synthesis Gateway results, as far as the generators unpack them    *)
(***************************************************************************)
\* generate_transaction_data and generate_transaction_data_batch return
\* (dettaglio, causale, controparte, include_invoice_number, is_fallback,
\* error) for every item, synthesized or fallback
TransactionDataLen == 6

\* "dettaglio, causale, controparte, has_invoice_ref = ..." in generate_payment
GeneratePaymentTargets == 4

\* "for prep, (dettaglio, causale, controparte, has_invoice_ref, is_fallback)
\* in zip(prepared, ai_results)" in _generate_payments_batch
PaymentsBatchTargets == 5

\* def _generate_payments_batch(self, fatture, amount_patterns,
\* timing_patterns, quality_levels): positional parameters after self
PaymentsBatchParams == 4

\* the names bound in the body of _generate_payments_batch before its loop
PaymentsBatchNames ==
    {"self", "fatture", "amount_patterns", "timing_patterns", "quality_levels",
     "prepared", "ai_inputs"}

\* the callers pass (fatture, batch, amount patterns, timing patterns,
\* quality levels)
PaymentsBatchArgs == 5

\* a faulty variant of generate_payment: the answer of the Gateway is
\* unpacked whatever its length, and the payment is returned
generate_payment_unpacked(fattura, amount_pattern, timing_pattern, id) ==
    { Return(Transazione(ParseUuid(UuidStr(id)), d, Text("dettaglio", << >>), a,
                         fattura.prestatore, Text("causale", << >>), ref))
      : d \in PatternDates(fattura.data_emissione, timing_pattern),
        a \in PatternAmounts(fattura.importo, amount_pattern),
        ref \in BOOLEAN }

\* generate_payment(fattura, company, amount_pattern, timing_pattern,
\* quality_level) with the fresh id: the Gateway always answers, and the
\* unpacking of its answer raises ValueError unless the lengths agree
generate_payment(fattura, amount_pattern, timing_pattern, id) ==
    IF TransactionDataLen # GeneratePaymentTargets
    THEN {Raise("ValueError")}
    ELSE { Return(Transazione(ParseUuid(UuidStr(id)), d, Text("dettaglio", << >>), a,
                              fattura.prestatore, Text("causale", << >>), ref))
           : d \in PatternDates(fattura.data_emissione, timing_pattern),
             a \in PatternAmounts(fattura.importo, amount_pattern),
             ref \in BOOLEAN }

\* the payments of one invoice list, ids counted from id
RECURSIVE PaymentsOf(_, _, _, _)
PaymentsOf(fatture_, amount_pattern, timing_pattern, id) ==
    IF fatture_ = <<>>
    THEN {<<>>}
    ELSE { <<Transazione(ParseUuid(UuidStr(id)), d, Text("dettaglio", << >>), a,
                         Head(fatture_).prestatore, Text("causale", << >>), ref)>>
             \o rest
           : d \in PatternDates(Head(fatture_).data_emissione, timing_pattern),
             a \in PatternAmounts(Head(fatture_).importo, amount_pattern),
             ref \in BOOLEAN,
             rest \in PaymentsOf(Tail(fatture_), amount_pattern, timing_pattern, id + 1) }

\* _generate_payments_batch called with nargs positional arguments: the call
\* raises TypeError unless nargs matches the signature, the loop header
\* raises NameError unless `companies` is bound, and the unpacking of the
\* Gateway results raises ValueError unless the lengths agree
generate_payments_batch(nargs, fatture_, amount_pattern, timing_pattern, id) ==
    IF nargs # PaymentsBatchParams
    THEN {Raise("TypeError")}
    ELSE IF "companies" \notin PaymentsBatchNames
    THEN {Raise("NameError")}
    ELSE IF fatture_ # <<>> /\ TransactionDataLen # PaymentsBatchTargets
    THEN {Raise("ValueError")}
    ELSE {Return(ts) : ts \in PaymentsOf(fatture_, amount_pattern, timing_pattern, id)}

(***************************************************************************)
(* Invoice construction in the generators                                  *)
(***************************************************************************)
\* the loop "fattura = Fattura(...); fatture.append(fattura)" over prepared
\* invoices: the first construction that fails raises out of the loop
RECURSIVE InvoicesFrom(_, _, _)
InvoicesFrom(prepared, id, acc) ==
    IF prepared = <<>>
    THEN Return(acc)
    ELSE LET p == Head(prepared)
             f == Fattura(id, p.data_emissione, p.data_scadenza, p.importo, p.prestatore)
         IN  IF f.exc # "none"
             THEN Raise(f.exc)
             ELSE InvoicesFrom(Tail(prepared), id + 1, Append(acc, f.value))

\* _generate_invoices_batch(companies, ...): one invoice per company of the
\* batch, data_scadenza = data_emissione + timedelta(days=randint(30, 90))
generate_invoices_batch(batch, draws, id) ==
    InvoicesFrom([i \in 1..Len(batch) |->
                     [data_emissione |-> draws[i].data_emissione,
                      data_scadenza |-> draws[i].data_emissione + Days(draws[i].scadenza_days),
                      importo |-> draws[i].importo,
                      prestatore |-> batch[i]]],
                 id, <<>>)

\* _generate_scadenza_date(data_emissione)
generate_scadenza_date(data_emissione, days) == data_emissione + Days(days)

\* _generate_billing_period_invoices(company, n_invoices, billing_period)
generate_billing_period_invoices(company, draws, id) ==
    InvoicesFrom([i \in 1..Len(draws) |->
                     [data_emissione |-> draws[i].data_emissione,
                      data_scadenza |-> generate_scadenza_date(draws[i].data_emissione,
                                                               draws[i].scadenza_days),
                      importo |-> draws[i].importo,
                      prestatore |-> company]],
                 id, <<>>)

\* the dummy invoices of generate_scenario_standalone_payments
generate_dummy_invoices(batch, draws, id) ==
    InvoicesFrom([i \in 1..Len(batch) |->
                     [data_emissione |-> draws[i].data_emissione,
                      data_scadenza |-> draws[i].data_emissione + Days(draws[i].scadenza_days),
                      importo |-> draws[i].importo,
                      prestatore |-> batch[i]]],
                 id, <<>>)

\* faulty variant: days_after the due date of the first invoice
first_due_payment_date(fatture_, days_after) ==
    fatture_[1].data_scadenza + Days(days_after)

\* _generate_group_payment_date(fatture): days_after the latest due date
generate_group_payment_date(fatture_, days_after) ==
    MaxSeq([i \in 1..Len(fatture_) |-> fatture_[i].data_scadenza]) + Days(days_after)

\* a month of the calendar, taken as 30 days
MonthDays == 30

\* strftime("%m/%Y") of a datetime: its month, counted from day 0
MonthOf(t) == DateOf(t) \div MonthDays

\* f.numero_fattura: the number the Gateway gave invoice f, one per invoice,
\* stands as the id of f
NumeroFattura(f) == f.id

\* _generate_group_payment_reference(fatture, include_all_ids)
generate_group_payment_reference(fatture_, include_all_ids) ==
    IF include_all_ids /\ Len(fatture_) <= 3
    THEN LET invoice_numbers == [i \in 1..Len(fatture_) |-> NumeroFattura(fatture_[i])]
         IN  [dettaglio |-> Text("BONIFICO SEPA - Pagamento fatture n. ", invoice_numbers),
              causale |-> Text("Pagamento fatture ", invoice_numbers)]
    ELSE IF Len(fatture_) > 3
    THEN LET first_date == MinSeq([i \in 1..Len(fatture_) |-> fatture_[i].data_emissione])
             last_date == MaxSeq([i \in 1..Len(fatture_) |-> fatture_[i].data_emissione])
             period_ref == IF MonthOf(first_date) = MonthOf(last_date)
                           THEN << MonthOf(first_date) >>
                           ELSE << MonthOf(first_date), MonthOf(last_date) >>
         IN  [dettaglio |-> Text("BONIFICO SEPA - Pagamento fatture periodo ", period_ref),
              causale |-> Text("Pagamento fatture ", period_ref)]
    ELSE [dettaglio |-> Text("BONIFICO SEPA - Pagamento fatture multiple", << >>),
          causale |-> Text("Pagamento fatture multiple", << >>)]

\* faulty variant: the amount of the first invoice instead of the sum
first_amount(fatture_) == fatture_[1].importo

\* total_amount = sum(f.importo for f in group_fatture)
total_amount(fatture_) == SumSeq([i \in 1..Len(fatture_) |-> fatture_[i].importo])

\* faulty variant: every invoice covered in full, whatever was paid
whole_invoice_covered(importo, total, payment_amount) == importo

\* faulty variant: every invoice covered by the whole payment
whole_payment_covered(importo, total, payment_amount) == payment_amount

\* amount_covered = (fattura.importo / total_amount) * payment_amount
amount_covered(importo, total, payment_amount) ==
    Times(Ratio(importo, total), payment_amount)

\* faulty variant: no ground truth row for the last invoice of the group
rows_but_last(group_fatture, transazione) ==
    [i \in 1..(Len(group_fatture) - 1) |->
        GroundTruth(UuidStr(group_fatture[i].id), UuidStr(transazione.id),
                    "partial", 85, group_fatture[i].importo)]

\* faulty variant: the rows of a group carry the confidence in percent of
\* the payment covered
share_as_confidence(group_fatture, transazione) ==
    [i \in 1..Len(group_fatture) |->
        GroundTruth(UuidStr(group_fatture[i].id), UuidStr(transazione.id),
                    "related", 100 + i,
                    amount_covered(group_fatture[i].importo,
                                   total_amount(group_fatture),
                                   transazione.importo))]

\* the ground truth rows of a group payment
group_ground_truth(group_fatture, transazione) ==
    [i \in 1..Len(group_fatture) |->
        GroundTruth(UuidStr(group_fatture[i].id), UuidStr(transazione.id),
                    "partial", 85,
                    amount_covered(group_fatture[i].importo,
                                   total_amount(group_fatture),
                                   transazione.importo))]

\* the ground truth rows of a batch of perfect 1:1 pairs
perfect_ground_truth(batch_fatture, batch_trans) ==
    [i \in 1..Min2(Len(batch_fatture), Len(batch_trans)) |->
        GroundTruth(UuidStr(batch_fatture[i].id), UuidStr(batch_trans[i].id),
                    "exact", 100, batch_fatture[i].importo)]

\* days between two installments: timedelta(days=30 * (j + 1))
InstallmentStepDays == 30

\* the loop "for j in range(n_installments)" of one invoice, from leg j on:
\* generate_payment, then importo and data are overwritten, then one ground
\* truth row; an exception of generate_payment ends the loop
RECURSIVE LegsOf(_, _, _, _, _, _, _)
LegsOf(fattura, n_installments, installment_amount, j, id, ts, gts) ==
    IF ~(j < n_installments)
    THEN {[exc |-> "none", transazioni |-> ts, ground_truth |-> gts]}
    ELSE UNION {
        IF p.exc # "none"
        THEN {[exc |-> p.exc, transazioni |-> ts, ground_truth |-> gts]}
        ELSE LET transazione ==
                     [p.value EXCEPT
                         !.importo = installment_amount,
                         !.data = fattura.data_emissione
                                  + Days(InstallmentStepDays * (j + 1))]
             IN  LegsOf(fattura, n_installments, installment_amount, j + 1, id + 1,
                        Append(ts, transazione),
                        Append(gts, GroundTruth(UuidStr(fattura.id),
                                                UuidStr(transazione.id),
                                                "exact", 100, transazione.importo)))
        : p \in generate_payment(fattura, "exact", "standard", id) }

\* the loop "for fattura, company in zip(batch_fatture, batch)" of
\* generate_scenario_1_n_installments: n_installments = random.choice([2, 3, 4]),
\* installment_amount = round(fattura.importo / n_installments, 2), then the
\* legs; splits records what was computed for each invoice reached
RECURSIVE InstallmentsOf(_, _, _, _, _)
InstallmentsOf(fs, id, ts, gts, splits) ==
    IF fs = <<>>
    THEN {[exc |-> "none", transazioni |-> ts, ground_truth |-> gts, splits |-> splits]}
    ELSE UNION {
        UNION {
            LET split == [fattura_id |-> Head(fs).id, importo |-> Head(fs).importo,
                          n_installments |-> n, installment_amount |-> a]
            IN  UNION {
                    IF legs.exc # "none"
                    THEN {[exc |-> legs.exc, transazioni |-> legs.transazioni,
                           ground_truth |-> legs.ground_truth,
                           splits |-> Append(splits, split)]}
                    ELSE InstallmentsOf(Tail(fs), id + n, legs.transazioni,
                                        legs.ground_truth, Append(splits, split))
                    : legs \in LegsOf(Head(fs), n, a, 0, id, ts, gts) }
            : a \in Round2(Head(fs).importo, n) }
        : n \in InstallmentCounts }

(***************************************************************************)
(* State                                                                   *)
(***************************************************************************)
VARIABLES
    config,            \* the configuration mapping given to the generator
    pc,                \* where the run is
    exc,               \* the exception that ended the run, or "none"
    companies,         \* self.companies
    step,              \* generate_dataset: index of the next scenario
    calls,             \* generate_dataset: the scenario generators invoked
    companies_to_use,  \* running generator: the selected companies
    todo,              \* running generator: chunks (or companies) still to process
    fatture,           \* running generator: its invoices
    transazioni,       \* running generator: its payments
    ground_truth,      \* running generator: its ground truth rows
    dummy_invoices,    \* standalone payments: the dummy invoices built
    splits,            \* installments: the splits computed
    all_fatture,       \* generate_dataset: all_fatture
    all_transazioni,   \* generate_dataset: all_transazioni
    all_ground_truth,  \* generate_dataset: all_ground_truth
    origin,            \* the scenario that returned each entry of all_fatture
    dataset,           \* what generate_dataset returned, or <<>>
    next_id,           \* the next uuid4()
    f_in,              \* Fattura constructor: the arguments given
    f_out,             \* Fattura constructor: its outcome, or <<>>
    main_pc,           \* main: where it is, or "none" outside main
    fs,                \* main: what the file system holds at each output path
    env,               \* main: the .env file and the API key
    exported,          \* export_dataset: the files written
    gw,                \* Text Synthesis Gateway: the call in progress, or <<>>
    n_items            \* _select_companies_for_scenario: its argument

vars ==
    << config, pc, exc, companies, step, calls, companies_to_use, todo,
       fatture, transazioni, ground_truth, dummy_invoices, splits,
       all_fatture, all_transazioni, all_ground_truth, origin, dataset,
       next_id, f_in, f_out, main_pc, fs, env, exported, gw, n_items >>

genVars == << companies_to_use, todo, fatture, transazioni, ground_truth,
              dummy_invoices, splits >>

allVars == << all_fatture, all_transazioni, all_ground_truth, origin >>

ctorVars == << f_in, f_out >>

mainVars == << main_pc, fs, env, exported >>

unitVars == << gw, n_items >>

(***************************************************************************)
(* Configurations                                                          *)
(***************************************************************************)
\* the number of scenario instances a configuration requests
Requested(cfg) ==
    cfg.perfect_1_1 + cfg.installments_1_n + cfg.group_payment_n_1
    + cfg.standalone_invoices + cfg.standalone_payments

\* the configurations generate_dataset is run with
DatasetConfigs ==
    { cfg \in [perfect_1_1 : 0..MaxCount,
               installments_1_n : 0..MaxCount,
               group_payment_n_1 : 0..MaxGroups,
               standalone_invoices : 0..MaxCount,
               standalone_payments : 0..MaxCount,
               num_companies : 0..MaxPool,
               batch_size : 1..MaxBatchSize] :
        Requested(cfg) <= MaxRequested }

\* the configurations the constructor is checked with
CheckedConfigs ==
    [perfect_1_1 : 0..MaxConfigCount,
     installments_1_n : 0..MaxConfigCount,
     group_payment_n_1 : 0..MaxConfigCount,
     standalone_invoices : 0..MaxConfigCount,
     standalone_payments : {0, 1},
     num_companies : 0..MaxConfigCompanies,
     batch_size : {1}]

Idle ==
    /\ exc = "none"
    /\ companies = <<>>
    /\ step = 0
    /\ calls = <<>>
    /\ companies_to_use = <<>>
    /\ todo = <<>>
    /\ fatture = <<>>
    /\ transazioni = <<>>
    /\ ground_truth = <<>>
    /\ dummy_invoices = <<>>
    /\ splits = <<>>
    /\ all_fatture = <<>>
    /\ all_transazioni = <<>>
    /\ all_ground_truth = <<>>
    /\ origin = <<>>
    /\ dataset = <<>>
    /\ next_id = 1
    /\ exported = {}

\* no call is made on the Gateway or on a helper of the generator alone
NoUnit ==
    /\ gw = <<>>
    /\ n_items = 0

\* the generator is used directly, not through main
NoMain ==
    /\ main_pc = "none"
    /\ fs = <<>>
    /\ env = <<>>

Init ==
    /\ config \in DatasetConfigs
    /\ pc = "start"
    /\ Idle
    /\ NoUnit
    /\ NoMain
    /\ f_in = <<>>
    /\ f_out = <<>>

(***************************************************************************)
(* SyntheticDataGenerator.__init__                                         *)
(***************************************************************************)
\* an exception leaves the function: nothing else changes
Raised(e) ==
    /\ pc' = "raised"
    /\ exc' = e

\* _validate_config, then generate_companies(num_companies)
Construct ==
    /\ pc = "start"
    /\ LET v == validate_config(config)
       IN  IF v.exc # "none"
           THEN /\ Raised(v.exc)
                /\ UNCHANGED companies
           ELSE /\ \E cs \in generate_companies(config.num_companies) :
                       companies' = cs
                /\ pc' = "ready"
                /\ exc' = "none"
    /\ UNCHANGED << config, step, calls, genVars, allVars, dataset, next_id, ctorVars, mainVars, unitVars >>

(***************************************************************************)
(* generate_dataset                                                        *)
(***************************************************************************)
\* the scenarios generate_dataset still has to run, from index i on: those
\* with "scenarios_config.get(s, 0) > 0"
Pending(cfg, i) == {k \in i..Len(ScenarioOrder) : cfg[ScenarioOrder[k]] > 0}

\* the index of the next scenario generate_dataset runs from index i on, or
\* Len(ScenarioOrder) + 1 when none is left
NextScenario(cfg, i) ==
    IF Pending(cfg, i) = {}
    THEN Len(ScenarioOrder) + 1
    ELSE CHOOSE k \in Pending(cfg, i) : \A j \in Pending(cfg, i) : k <= j

generate_dataset_begin ==
    /\ pc = "ready"
    /\ pc' = "generate_dataset"
    /\ step' = NextScenario(config, 1)
    /\ UNCHANGED << config, exc, companies, calls, genVars, allVars, dataset,
                    next_id, ctorVars, mainVars, unitVars >>

\* "... = self.generate_scenario_s(n)": the generator starts with its empty
\* lists and its selection of companies; the batched generators chunk the
\* selection, the group payment generator iterates over it
scenario_call ==
    /\ pc = "generate_dataset"
    /\ step \in 1..Len(ScenarioOrder)
    /\ LET s == ScenarioOrder[step]
       IN  /\ \E sel \in select_companies_for_scenario(companies, config[s]) :
                  /\ companies_to_use' = sel
                  /\ todo' = IF s = "group_payment_n_1"
                             THEN sel
                             ELSE chunk_list(sel, config.batch_size)
           /\ pc' = s
           /\ calls' = Append(calls, s)
           /\ fatture' = <<>>
           /\ transazioni' = <<>>
           /\ ground_truth' = <<>>
           /\ dummy_invoices' = <<>>
           /\ splits' = <<>>
    /\ UNCHANGED << config, exc, companies, step, allVars, dataset, next_id, ctorVars, mainVars, unitVars >>

\* faulty variant: the records of a scenario are put in front of those of
\* the scenarios that ran before it
scenario_return_in_front ==
    /\ pc \in Scenarios
    /\ todo = <<>>
    /\ all_fatture' = fatture \o all_fatture
    /\ all_transazioni' = transazioni \o all_transazioni
    /\ all_ground_truth' = ground_truth \o all_ground_truth
    /\ origin' = [i \in 1..Len(fatture) |-> pc] \o origin
    /\ step' = NextScenario(config, step + 1)
    /\ pc' = "generate_dataset"
    /\ UNCHANGED << config, exc, companies, calls, genVars, dataset, next_id, ctorVars, mainVars, unitVars >>

\* the generator returns (fatture, transazioni, ground_truth) and
\* generate_dataset extends its three lists
scenario_return ==
    /\ pc \in Scenarios
    /\ todo = <<>>
    /\ all_fatture' = all_fatture \o fatture
    /\ all_transazioni' = all_transazioni \o transazioni
    /\ all_ground_truth' = all_ground_truth \o ground_truth
    /\ origin' = origin \o [i \in 1..Len(fatture) |-> pc]
    /\ step' = NextScenario(config, step + 1)
    /\ pc' = "generate_dataset"
    /\ UNCHANGED << config, exc, companies, calls, genVars, dataset, next_id, ctorVars, mainVars, unitVars >>

\* the DataFrames and the metadata are built and returned
generate_dataset_end ==
    /\ pc = "generate_dataset"
    /\ step = Len(ScenarioOrder) + 1
    /\ dataset' = [fatture |-> all_fatture,
                   transazioni |-> all_transazioni,
                   ground_truth |-> all_ground_truth,
                   metadata |-> [total_fatture |-> Len(all_fatture),
                                 total_transazioni |-> Len(all_transazioni),
                                 total_matches |-> Len(all_ground_truth),
                                 config |-> config]]
    /\ pc' = "done"
    /\ UNCHANGED << config, exc, companies, step, calls, genVars, allVars,
                    next_id, ctorVars, mainVars, unitVars >>

(***************************************************************************)
(* The scenario generators: one action per iteration of the batch loop     *)
(***************************************************************************)
\* generate_scenario_1_1_perfect: one batch of invoices, their payments
\* (EXACT, STANDARD, NOISY) and one ground truth row per pair
perfect_batch ==
    /\ pc = "perfect_1_1"
    /\ todo # <<>>
    /\ LET batch == Head(todo)
       IN  \E draws \in [1..Len(batch) -> BatchDraws("oneshot", FALSE)] :
             LET inv == generate_invoices_batch(batch, draws, next_id)
             IN  IF inv.exc # "none"
                 THEN /\ Raised(inv.exc)
                      /\ UNCHANGED << fatture, transazioni, ground_truth, todo, next_id >>
                 ELSE \E pay \in generate_payments_batch(PaymentsBatchArgs, inv.value,
                                                       "exact", "standard",
                                                       next_id + Len(batch)) :
                        /\ fatture' = fatture \o inv.value
                        /\ IF pay.exc # "none"
                           THEN /\ Raised(pay.exc)
                                /\ next_id' = next_id + Len(batch)
                                /\ UNCHANGED << transazioni, ground_truth, todo >>
                           ELSE /\ transazioni' = transazioni \o pay.value
                                /\ ground_truth' = ground_truth
                                       \o perfect_ground_truth(inv.value, pay.value)
                                /\ todo' = Tail(todo)
                                /\ next_id' = next_id + 2 * Len(batch)
                                /\ UNCHANGED << pc, exc >>
    /\ UNCHANGED << config, companies, step, calls, companies_to_use,
                    dummy_invoices, splits, allVars, dataset, ctorVars, mainVars, unitVars >>

\* generate_scenario_1_n_installments: one batch of invoices with
\* amount_range=(2000, 15000), and the installments of each
installments_batch ==
    /\ pc = "installments_1_n"
    /\ todo # <<>>
    /\ LET batch == Head(todo)
       IN  \E draws \in [1..Len(batch) -> BatchDraws("installment", TRUE)] :
             LET inv == generate_invoices_batch(batch, draws, next_id)
             IN  IF inv.exc # "none"
                 THEN /\ Raised(inv.exc)
                      /\ UNCHANGED << fatture, transazioni, ground_truth, splits,
                                      todo, next_id >>
                 ELSE \E r \in InstallmentsOf(inv.value, next_id + Len(batch),
                                            transazioni, ground_truth, splits) :
                        /\ fatture' = fatture \o inv.value
                        /\ transazioni' = r.transazioni
                        /\ ground_truth' = r.ground_truth
                        /\ splits' = r.splits
                        /\ next_id' = next_id + Len(batch)
                                      + (Len(r.transazioni) - Len(transazioni))
                        /\ IF r.exc # "none"
                           THEN /\ Raised(r.exc)
                                /\ UNCHANGED todo
                           ELSE /\ todo' = Tail(todo)
                                /\ UNCHANGED << pc, exc >>
    /\ UNCHANGED << config, companies, step, calls, companies_to_use,
                    dummy_invoices, allVars, dataset, ctorVars, mainVars, unitVars >>

\* generate_scenario_n_1_group_payment: the iteration for one company: the
\* invoices of a billing period, one payment (default uuid4 id,
\* invoice_number=1) and one ground truth row per invoice
group_payment_step ==
    /\ pc = "group_payment_n_1"
    /\ todo # <<>>
    /\ LET company == Head(todo)
       IN  \E n_invoices \in GroupSizes :
           \E draws \in GroupDrawSeqs(n_invoices) :
           \E pay \in GroupPaymentDraws :
             LET inv == generate_billing_period_invoices(company, draws, next_id)
             IN  IF inv.exc # "none"
                 THEN /\ Raised(inv.exc)
                      /\ UNCHANGED << fatture, transazioni, ground_truth, todo, next_id >>
                 ELSE LET group_fatture == inv.value
                          payment_amount == Percent(total_amount(group_fatture), pay.multiplier)
                          payment_date ==
                              generate_group_payment_date(group_fatture, pay.days_after)
                          reference ==
                              generate_group_payment_reference(group_fatture, TRUE)
                          transazione ==
                              Transazione(next_id + n_invoices, payment_date,
                                          reference.dettaglio, payment_amount,
                                          company, reference.causale, TRUE)
                      IN  /\ fatture' = fatture \o group_fatture
                          /\ transazioni' = Append(transazioni, transazione)
                          /\ ground_truth' = ground_truth
                                 \o group_ground_truth(group_fatture, transazione)
                          /\ todo' = Tail(todo)
                          /\ next_id' = next_id + n_invoices + 1
                          /\ UNCHANGED << pc, exc >>
    /\ UNCHANGED << config, companies, step, calls, companies_to_use,
                    dummy_invoices, splits, allVars, dataset, ctorVars, mainVars, unitVars >>

\* generate_scenario_standalone_invoices: one batch of invoices, no payment
\* and no ground truth row
standalone_invoices_batch ==
    /\ pc = "standalone_invoices"
    /\ todo # <<>>
    /\ LET batch == Head(todo)
       IN  \E draws \in [1..Len(batch) -> BatchDraws("standalone_invoice", FALSE)] :
             LET inv == generate_invoices_batch(batch, draws, next_id)
             IN  IF inv.exc # "none"
                 THEN /\ Raised(inv.exc)
                      /\ UNCHANGED << fatture, todo, next_id >>
                 ELSE /\ fatture' = fatture \o inv.value
                      /\ todo' = Tail(todo)
                      /\ next_id' = next_id + Len(batch)
                      /\ UNCHANGED << pc, exc >>
    /\ UNCHANGED << config, companies, step, calls, companies_to_use,
                    transazioni, ground_truth, dummy_invoices, splits, allVars,
                    dataset, ctorVars, mainVars, unitVars >>

\* generate_scenario_standalone_payments: the dummy invoices of one batch
\* and their payments; the dummy invoices are never added to fatture
standalone_payments_batch ==
    /\ pc = "standalone_payments"
    /\ todo # <<>>
    /\ LET batch == Head(todo)
       IN  \E draws \in [1..Len(batch) -> DummyDraws] :
             LET inv == generate_dummy_invoices(batch, draws, next_id)
             IN  IF inv.exc # "none"
                 THEN /\ Raised(inv.exc)
                      /\ UNCHANGED << transazioni, dummy_invoices, todo, next_id >>
                 ELSE \E pay \in generate_payments_batch(PaymentsBatchArgs, inv.value,
                                                       "exact", "standard",
                                                       next_id + Len(batch)) :
                        /\ dummy_invoices' = dummy_invoices \o inv.value
                        /\ IF pay.exc # "none"
                           THEN /\ Raised(pay.exc)
                                /\ next_id' = next_id + Len(batch)
                                /\ UNCHANGED << transazioni, todo >>
                           ELSE /\ transazioni' = transazioni \o pay.value
                                /\ todo' = Tail(todo)
                                /\ next_id' = next_id + 2 * Len(batch)
                                /\ UNCHANGED << pc, exc >>
    /\ UNCHANGED << config, companies, step, calls, companies_to_use, fatture,
                    ground_truth, splits, allVars, dataset, ctorVars, mainVars, unitVars >>

Next ==
    \/ Construct
    \/ generate_dataset_begin
    \/ scenario_call
    \/ perfect_batch
    \/ installments_batch
    \/ group_payment_step
    \/ standalone_invoices_batch
    \/ standalone_payments_batch
    \/ scenario_return
    \/ generate_dataset_end

Spec == Init /\ [][Next]_vars

(***************************************************************************)
(* utils.py and main.py: the write-permission precheck, the environment    *)
(* and the export                                                          *)
(***************************************************************************)
\* the three paths main checks, in the order of its assert statements
OutputPaths == << "output/invoices.csv", "output/payments.csv", "output/ground_truth.csv" >>

\* what os.path finds at os.path.dirname(output_path)
DirKinds == {"missing", "not_a_directory", "read_only", "writable"}

\* what os.path finds at output_path
FileKinds == {"missing", "not_a_file", "read_only", "writable"}

\* faulty variant: a missing directory passes, as if it could be created
creatable_directory(fs_, i) ==
    fs_.dir \in {"missing", "writable"} /\ fs_.files[i] \in {"missing", "writable"}

\* check_write_permission(OutputPaths[i]) on the file system fs_
check_write_permission(fs_, i) ==
    IF fs_.dir = "missing" THEN FALSE
    ELSE IF fs_.dir = "not_a_directory" THEN FALSE
    ELSE IF fs_.dir = "read_only" THEN FALSE
    ELSE IF fs_.files[i] # "missing"
    THEN IF fs_.files[i] = "not_a_file" THEN FALSE
         ELSE IF fs_.files[i] = "read_only" THEN FALSE
         ELSE TRUE
    ELSE TRUE

\* the file systems main is started on: no output directory (nothing, or a
\* file of that name), and a directory, read-only or writable, in which the
\* three files are all missing, all writable, or all writable but one
FileSystems ==
    { [dir |-> d, files |-> [i \in 1..Len(OutputPaths) |-> "missing"]]
      : d \in DirKinds }
    \cup { [dir |-> d, files |-> [i \in 1..Len(OutputPaths) |-> "writable"]]
           : d \in {"read_only", "writable"} }
    \cup { [dir |-> "writable",
            files |-> [i \in 1..Len(OutputPaths) |-> IF i = k THEN bad ELSE "writable"]]
           : k \in 1..Len(OutputPaths), bad \in FileKinds \ {"writable"} }

\* load_dotenv() succeeded or not; os.getenv("AZURE_OPENAI_API_KEY") is set
\* or not
Environments == [dotenv : BOOLEAN, api_key : BOOLEAN]

\* the configurations of main (DEFAULT_CONFIG as configured in settings.py),
\* scaled to one company and batches of one
MainConfigs ==
    {cfg \in DatasetConfigs : cfg.num_companies = 1 /\ cfg.batch_size = 1}

\* faulty variant: the key is read without being checked
unchecked_api_key(e) ==
    IF ~e.dotenv
    THEN Raise("EnvironmentConfigError")
    ELSE Return(e.api_key)

\* "success = load_dotenv(); if not success: raise ..." and
\* "api_key = os.getenv(...); if not api_key: raise ..."
load_environment(e) ==
    IF ~e.dotenv
    THEN Raise("EnvironmentConfigError")
    ELSE IF ~e.api_key
    THEN Raise("EnvironmentConfigError")
    ELSE Return(e.api_key)

InitMain ==
    /\ config \in MainConfigs
    /\ pc = "main"
    /\ Idle
    /\ NoUnit
    /\ main_pc = "precheck"
    /\ fs \in FileSystems
    /\ env \in Environments
    /\ f_in = << >>
    /\ f_out = << >>

\* an exception reaches "except Exception as e: logger.error(...); raise"
MainRaised(e) ==
    /\ main_pc' = "raised"
    /\ exc' = e

\* the three "assert check_write_permission(...)" statements
main_check_write_permission ==
    /\ main_pc = "precheck"
    /\ IF \E i \in 1..Len(OutputPaths) : ~check_write_permission(fs, i)
       THEN MainRaised("AssertionError")
       ELSE /\ main_pc' = "environment"
            /\ UNCHANGED exc
    /\ UNCHANGED << config, pc, companies, step, calls, genVars, allVars, dataset,
                    next_id, ctorVars, fs, env, exported, unitVars >>

\* load_dotenv() and os.getenv("AZURE_OPENAI_API_KEY"); then the generator
\* is constructed
main_load_environment ==
    /\ main_pc = "environment"
    /\ IF load_environment(env).exc # "none"
       THEN /\ MainRaised(load_environment(env).exc)
            /\ UNCHANGED pc
       ELSE /\ main_pc' = "run"
            /\ pc' = "start"
            /\ UNCHANGED exc
    /\ UNCHANGED << config, companies, step, calls, genVars, allVars, dataset,
                    next_id, ctorVars, fs, env, exported, unitVars >>

\* the constructor or generate_dataset raised
main_except ==
    /\ main_pc = "run"
    /\ pc = "raised"
    /\ MainRaised(exc)
    /\ UNCHANGED << config, pc, companies, step, calls, genVars, allVars, dataset,
                    next_id, ctorVars, fs, env, exported, unitVars >>

\* faulty variant: the export runs whether generate_dataset returned or
\* raised
export_after_error ==
    /\ main_pc = "run"
    /\ pc \in {"done", "raised"}
    /\ exported' = Range(OutputPaths) \cup {"output/metadata.json"}
    /\ main_pc' = "completed"
    /\ UNCHANGED << config, pc, exc, companies, step, calls, genVars, allVars,
                    dataset, next_id, ctorVars, fs, env, unitVars >>

\* generator.export_dataset(dataset, output_dir="output"): the three tables
\* and the metadata are written
export_dataset ==
    /\ main_pc = "run"
    /\ pc = "done"
    /\ exported' = Range(OutputPaths) \cup {"output/metadata.json"}
    /\ main_pc' = "completed"
    /\ UNCHANGED << config, pc, exc, companies, step, calls, genVars, allVars,
                    dataset, next_id, ctorVars, fs, env, unitVars >>

NextMain ==
    \/ main_check_write_permission
    \/ main_load_environment
    \/ Next
    \/ main_except
    \/ export_dataset

SpecMain == InitMain /\ [][NextMain]_vars

(***************************************************************************)
(* generators/ai_text_generator.py: the calls of the text Gateway          *)
(* Texts are tuples of strings: the pieces of an f-string, or a tag and    *)
(* the fields of the input a synthesized text was asked for.               *)
(***************************************************************************)
\* largest batch passed to the Gateway
MaxGatewayBatch == 2

\* stop_after_attempt(5) of _generate_batch_with_retry
BatchStop == 5

\* stop_after_attempt(3) of _invoke_with_retry
InvokeStop == 3

\* what one remote invocation does: it returns, or raises the rate-limit
\* error, or raises another error
RemoteOutcomes == {"ok", "RateLimitError", "APIConnectionError"}

\* the invoices payments are written for: Fattura has no tipo_servizio field
GatewayFatture ==
    { [numero_fattura |-> "FT2024/1000", prestatore |-> "ALFA SRL"],
      [numero_fattura |-> "FT2025/2000", prestatore |-> "GAMMA SPA"] }

\* the entries of the list passed to generate_transaction_data_batch
TransactionInputs == [fattura : GatewayFatture, include_invoice_number : BOOLEAN]

\* the entries of the list passed to generate_invoice_data_batch: the
\* callers pass data_emissione as a datetime or as its '%Y-%m-%d' text
InvoiceInputs ==
    [tipo_servizio : {"Consulting", "Noleggio"},
     data_emissione : {"2024-03-01", "2025-03-01"}]

\* the lists of at most n entries of S
Batches(S, n) == UNION {[1..k -> S] : k \in 0..n}

\* samples of random.randint(1000, 9999)
FallbackNumbers == {"1000", "9999"}

\* tipo_servizio.lower()
Lower(t) ==
    CASE t = "Consulting" -> "consulting"
      [] t = "Noleggio" -> "noleggio"

\* datetime.strptime(data_emissione, "%Y-%m-%d").year, as f"{...}" prints it
YearOf(d) ==
    CASE d = "2024-03-01" -> "2024"
      [] d = "2025-03-01" -> "2025"

\* a slot of "results = [None] * len(transactions)" that was never filled
NoneResult ==
    [dettaglio |-> << >>, causale |-> << >>, controparte |-> << >>,
     include_invoice_number |-> FALSE, is_fallback |-> FALSE, error |-> "None"]

\* the structured output the chain returns for one input: the text the
\* Gateway synthesized for it
Synthesized(chain, input) ==
    [dettaglio |-> << "dettaglio", chain, input.fattura.numero_fattura >>,
     causale |-> << "causale", chain, input.fattura.numero_fattura >>,
     controparte |-> << "controparte", chain, input.fattura.prestatore >>]

SynthesizedInvoice(input) ==
    [descrizione |-> << "descrizione", input.tipo_servizio, input.data_emissione >>,
     committente |-> << "committente", input.tipo_servizio, input.data_emissione >>,
     numero_fattura |-> << "numero_fattura", input.tipo_servizio, input.data_emissione >>]

\* chain.batch(inputs): one response per input, in the order of the inputs
chain_batch(chain, inputs) ==
    [k \in 1..Len(inputs) |-> Synthesized(chain, inputs[k])]

\* faulty variant: every exception is retried
retry_any_exception(e, attempt_number, stop) ==
    IF attempt_number < stop THEN "retry" ELSE "reraise"

\* the tenacity decorator: retry_if_exception_type(RateLimitError),
\* stop_after_attempt(stop), reraise=True
retry_decision(e, attempt_number, stop) ==
    IF e = "RateLimitError" /\ attempt_number < stop THEN "retry" ELSE "reraise"

\* _get_fallback_invoice_data(tipo_servizio, data_emissione), with the
\* number random.randint(1000, 9999) returned
get_fallback_invoice_data(tipo_servizio, data_emissione, number) ==
    [descrizione |->
        IF Lower(tipo_servizio) = "consulting"
        THEN << "Attivita consulenza specialistica - Prot. N. 456/2024" >>
        ELSE << "Prestazione ", tipo_servizio, " - Rif. contratto" >>,
     committente |-> << "BETA SOLUTIONS SRL" >>,
     numero_fattura |-> << "FT", YearOf(data_emissione), "/", number >>]

\* _get_fallback_transaction_data(fattura, include_invoice_number, error)
get_fallback_transaction_data(fattura, include_invoice_number, error) ==
    [dettaglio |->
        IF include_invoice_number
        THEN << "BONIFICO SEPA - Pagamento fattura n. ", fattura.numero_fattura >>
        ELSE << "BONIFICO SEPA - Pagamento ", "servizi" >>,
     causale |->
        IF include_invoice_number
        THEN << "Pagamento fattura ", fattura.numero_fattura >>
        ELSE << "Pagamento ", "servizi" >>,
     controparte |-> << fattura.prestatore >>,
     include_invoice_number |-> include_invoice_number,
     is_fallback |-> TRUE,
     error |-> error]

\* idx_with (flag = TRUE) and idx_without (flag = FALSE)
IndicesOf(items, flag) ==
    SelectSeq([i \in 1..Len(items) |-> i],
              LAMBDA i : items[i].include_invoice_number = flag)

\* inputs_with and inputs_without
InputsOf(items, flag) ==
    [k \in 1..Len(IndicesOf(items, flag)) |-> items[IndicesOf(items, flag)[k]]]

\* faulty variant: the responses are stored in the order they arrive
fill_in_arrival_order(results, idx, res, flag) ==
    [i \in 1..Len(results) |->
        IF i <= Min2(Len(idx), Len(res))
        THEN [dettaglio |-> res[i].dettaglio, causale |-> res[i].causale,
              controparte |-> res[i].controparte, include_invoice_number |-> flag,
              is_fallback |-> FALSE, error |-> "None"]
        ELSE results[i]]

\* "for i, r in zip(idx, res): results[i] = (r.dettaglio, r.causale,
\* r.controparte, flag, False, None)"
fill_results(results, idx, res, flag) ==
    [i \in 1..Len(results) |->
        IF \E k \in 1..Min2(Len(idx), Len(res)) : idx[k] = i
        THEN LET k == CHOOSE k \in 1..Min2(Len(idx), Len(res)) : idx[k] = i
             IN  [dettaglio |-> res[k].dettaglio, causale |-> res[k].causale,
                  controparte |-> res[k].controparte, include_invoice_number |-> flag,
                  is_fallback |-> FALSE, error |-> "None"]
        ELSE results[i]]

\* "for i, t in enumerate(transactions): results[i] =
\* self._get_fallback_transaction_data(...)"
fallback_results(items, error) ==
    [i \in 1..Len(items) |->
        get_fallback_transaction_data(items[i].fattura,
                                      items[i].include_invoice_number, error)]

\* _determine_transaction_type: the type the keywords give, or else the
\* answer of one remote invocation that is not repeated when it names a
\* template ("ACCR BEU" here), or else the generic type
determine_transaction_type(heuristic, outcome) ==
    IF heuristic # "None" THEN heuristic
    ELSE IF outcome = "ok" THEN "ACCR BEU"
    ELSE "ALTRO/GENERICO"

\* the calls made on the Gateway
GatewayCalls ==
    { [op |-> "generate_transaction_data_batch", items |-> b]
      : b \in Batches(TransactionInputs, MaxGatewayBatch) }
    \cup { [op |-> "generate_transaction_data",
            items |-> << [fattura |-> f, include_invoice_number |-> FALSE] >>]
           : f \in GatewayFatture }
    \cup { [op |-> "generate_invoice_data_batch", items |-> b]
           : b \in Batches(InvoiceInputs, MaxGatewayBatch) }

InitGateway ==
    /\ config \in {cfg \in DatasetConfigs : Requested(cfg) = 0 /\ cfg.num_companies = 1
                                            /\ cfg.batch_size = 1}
    /\ pc = "gateway"
    /\ Idle
    /\ NoMain
    /\ f_in = << >>
    /\ f_out = << >>
    /\ n_items = 0
    /\ \E c \in GatewayCalls :
          gw = [op |-> c.op, items |-> c.items, pc |-> "call", attempts |-> 0,
                last |-> "none", results |-> << >>, synthesized |-> {},
                transaction_type |-> "none"]

\* generate_transaction_data_batch up to "results = [None] * len(...)" and
\* the tests "if inputs_with", "if inputs_without"
generate_transaction_data_batch ==
    /\ gw.op = "generate_transaction_data_batch"
    /\ gw.pc = "call"
    /\ gw' = [gw EXCEPT
                !.results = [i \in 1..Len(gw.items) |-> NoneResult],
                !.pc = IF IndicesOf(gw.items, TRUE) # << >> THEN "with"
                       ELSE IF IndicesOf(gw.items, FALSE) # << >> THEN "without"
                       ELSE "returned"]
    /\ UNCHANGED << config, pc, exc, companies, step, calls, genVars, allVars, dataset,
                    next_id, ctorVars, mainVars, n_items >>

\* one attempt of self._generate_batch_with_retry(chain, inputs), with what
\* follows it: the results of the chain are stored, or the attempt is
\* repeated, or the except clause replaces every result by its fallback
generate_batch_with_retry ==
    /\ gw.op = "generate_transaction_data_batch"
    /\ gw.pc \in {"with", "without"}
    /\ \E outcome \in RemoteOutcomes :
          LET flag == gw.pc = "with"
              attempt_number == gw.attempts + 1
          IN  IF outcome = "ok"
              THEN gw' = [gw EXCEPT
                            !.results = fill_results(@, IndicesOf(gw.items, flag),
                                            chain_batch(gw.pc, InputsOf(gw.items, flag)),
                                            flag),
                            !.synthesized = @ \cup Range(IndicesOf(gw.items, flag)),
                            !.attempts = 0,
                            !.last = outcome,
                            !.pc = IF flag /\ IndicesOf(gw.items, FALSE) # << >>
                                   THEN "without"
                                   ELSE "returned"]
              ELSE IF retry_decision(outcome, attempt_number, BatchStop) = "retry"
              THEN gw' = [gw EXCEPT !.attempts = attempt_number, !.last = outcome]
              ELSE gw' = [gw EXCEPT
                            !.results = fallback_results(gw.items, outcome),
                            !.attempts = attempt_number,
                            !.last = outcome,
                            !.pc = "returned"]
    /\ UNCHANGED << config, pc, exc, companies, step, calls, genVars, allVars, dataset,
                    next_id, ctorVars, mainVars, n_items >>

\* generate_transaction_data up to the try statement:
\* "include_invoice_number = random.random() < invoice_number_probability"
\* and "transaction_type = self._determine_transaction_type(fattura)"
generate_transaction_data ==
    /\ gw.op = "generate_transaction_data"
    /\ gw.pc = "call"
    /\ \E include_invoice_number \in BOOLEAN,
          heuristic \in {"None", "DELEGA F24"},
          outcome \in RemoteOutcomes :
          gw' = [gw EXCEPT
                   !.items[1].include_invoice_number = include_invoice_number,
                   !.transaction_type = determine_transaction_type(heuristic, outcome),
                   !.pc = "invoke"]
    /\ UNCHANGED << config, pc, exc, companies, step, calls, genVars, allVars, dataset,
                    next_id, ctorVars, mainVars, n_items >>

\* one attempt of self._invoke_with_retry(chain, inputs), with what follows
\* it: the tuple of the response is returned, or the attempt is repeated, or
\* the except clause returns the fallback
invoke_with_retry ==
    /\ gw.op = "generate_transaction_data"
    /\ gw.pc = "invoke"
    /\ \E outcome \in RemoteOutcomes :
          LET flag == gw.items[1].include_invoice_number
              attempt_number == gw.attempts + 1
              chain == IF flag THEN "with" ELSE "without"
          IN  IF outcome = "ok"
              THEN gw' = [gw EXCEPT
                            !.results = fill_results(<< NoneResult >>, << 1 >>,
                                            << Synthesized(chain, gw.items[1]) >>, flag),
                            !.synthesized = {1},
                            !.attempts = attempt_number,
                            !.last = outcome,
                            !.pc = "returned"]
              ELSE IF retry_decision(outcome, attempt_number, InvokeStop) = "retry"
              THEN gw' = [gw EXCEPT !.attempts = attempt_number, !.last = outcome]
              ELSE gw' = [gw EXCEPT
                            !.results = fallback_results(gw.items, outcome),
                            !.attempts = attempt_number,
                            !.last = outcome,
                            !.pc = "returned"]
    /\ UNCHANGED << config, pc, exc, companies, step, calls, genVars, allVars, dataset,
                    next_id, ctorVars, mainVars, n_items >>

\* generate_invoice_data_batch: chain.batch(inputs) is called once; its
\* responses are returned, or the except clause returns one fallback per
\* invoice, each with its own random number
generate_invoice_data_batch ==
    /\ gw.op = "generate_invoice_data_batch"
    /\ gw.pc = "call"
    /\ \E outcome \in RemoteOutcomes :
          IF outcome = "ok"
          THEN gw' = [gw EXCEPT
                        !.results = [i \in 1..Len(gw.items) |->
                                        SynthesizedInvoice(gw.items[i])],
                        !.synthesized = 1..Len(gw.items),
                        !.attempts = 1,
                        !.last = outcome,
                        !.pc = "returned"]
          ELSE \E numbers \in [1..Len(gw.items) -> FallbackNumbers] :
                  gw' = [gw EXCEPT
                           !.results = [i \in 1..Len(gw.items) |->
                                           get_fallback_invoice_data(
                                               gw.items[i].tipo_servizio,
                                               gw.items[i].data_emissione,
                                               numbers[i])],
                           !.attempts = 1,
                           !.last = outcome,
                           !.pc = "returned"]
    /\ UNCHANGED << config, pc, exc, companies, step, calls, genVars, allVars, dataset,
                    next_id, ctorVars, mainVars, n_items >>

NextGateway ==
    \/ generate_transaction_data_batch
    \/ generate_batch_with_retry
    \/ generate_transaction_data
    \/ invoke_with_retry
    \/ generate_invoice_data_batch

SpecGateway == InitGateway /\ [][NextGateway]_vars

\* the call is not suspended for ever: a remote invocation returns or
\* raises, and tenacity sleeps at most 10 (20) seconds between two attempts
SpecGatewayLive == SpecGateway /\ WF_vars(NextGateway)

(***************************************************************************)
(* The constructor alone, over a wider range of configurations             *)
(***************************************************************************)
InitConfig ==
    /\ config \in CheckedConfigs
    /\ pc = "start"
    /\ Idle
    /\ NoUnit
    /\ NoMain
    /\ f_in = <<>>
    /\ f_out = <<>>

SpecConfig == InitConfig /\ [][Construct]_vars

(***************************************************************************)
(* The pattern appliers alone: generate_payment and                        *)
(* _generate_payments_batch called with every AmountPattern and            *)
(* TimingPattern, and with either answer of the Gateway                    *)
(***************************************************************************)
AmountPatterns == {"exact", "partial", "excess", "discount", "penalty"}

TimingPatterns == {"standard", "delayed", "early", "same_day"}

\* the invoices payments are generated for
PaymentInvoices ==
    { Fattura(1, Days(FirstDay + 10), Days(FirstDay + 10 + ScadenzaMinDays),
              100000, 1).value,
      Fattura(2, Days(LastDay), Days(LastDay + ScadenzaMaxDays), 250050, 1).value }

\* what generate_transaction_data returns for one payment: the tuple of a
\* synthesized text or the tuple of the fallback
GatewayAnswers ==
    UNION { { fill_results(<< NoneResult >>, << 1 >>,
                           << Synthesized(IF b THEN "with" ELSE "without",
                                          [fattura |-> f, include_invoice_number |-> b]) >>,
                           b)[1],
              get_fallback_transaction_data(f, b, "APIConnectionError") }
            : f \in GatewayFatture, b \in BOOLEAN }

\* the calls of the two pattern appliers: _generate_payments_batch is called
\* as its signature asks (4 lists) and as the scenario generators call it
\* (5 arguments)
PaymentCalls ==
    { [op |-> "generate_payment", fatture |-> << f >>, amount_pattern |-> a,
       timing_pattern |-> t, nargs |-> 5, data |-> << d >>]
      : f \in PaymentInvoices, a \in AmountPatterns, t \in TimingPatterns,
        d \in GatewayAnswers }
    \cup { [op |-> "generate_payments_batch", fatture |-> fs_, amount_pattern |-> a,
            timing_pattern |-> t, nargs |-> n, data |-> << >>]
           : fs_ \in {<< f >> : f \in PaymentInvoices}
                     \cup {<< f, g >> : f \in PaymentInvoices, g \in PaymentInvoices},
             a \in AmountPatterns, t \in TimingPatterns,
             n \in {PaymentsBatchParams, PaymentsBatchArgs} }

InitPayment ==
    /\ config \in {cfg \in DatasetConfigs : Requested(cfg) = 0 /\ cfg.num_companies = 1
                                            /\ cfg.batch_size = 1}
    /\ pc = "payment"
    /\ Idle
    /\ NoMain
    /\ f_in = << >>
    /\ f_out = << >>
    /\ n_items = 0
    /\ \E c \in PaymentCalls :
          gw = [op |-> c.op, fatture |-> c.fatture, amount_pattern |-> c.amount_pattern,
                timing_pattern |-> c.timing_pattern, nargs |-> c.nargs,
                data |-> c.data, pc |-> "call", out |-> Return(<< >>)]

\* self.generate_payment(fattura, company, amount_pattern, timing_pattern,
\* quality_level), the Gateway answering gw.data
call_generate_payment ==
    /\ gw.op = "generate_payment"
    /\ gw.pc = "call"
    /\ \E r \in generate_payment(gw.fatture[1], gw.amount_pattern, gw.timing_pattern,
                                 next_id) :
          /\ gw' = [gw EXCEPT !.out = r, !.pc = "returned"]
          /\ next_id' = IF r.exc = "none" THEN next_id + 1 ELSE next_id
    /\ UNCHANGED << config, pc, exc, companies, step, calls, genVars, allVars, dataset,
                    ctorVars, mainVars, n_items >>

\* self._generate_payments_batch(...) with gw.nargs positional arguments
call_generate_payments_batch ==
    /\ gw.op = "generate_payments_batch"
    /\ gw.pc = "call"
    /\ \E r \in generate_payments_batch(gw.nargs, gw.fatture, gw.amount_pattern,
                                        gw.timing_pattern, next_id) :
          /\ gw' = [gw EXCEPT !.out = r, !.pc = "returned"]
          /\ next_id' = IF r.exc = "none" THEN next_id + Len(gw.fatture) ELSE next_id
    /\ UNCHANGED << config, pc, exc, companies, step, calls, genVars, allVars, dataset,
                    ctorVars, mainVars, n_items >>

NextPayment ==
    \/ call_generate_payment
    \/ call_generate_payments_batch

SpecPayment == InitPayment /\ [][NextPayment]_vars

(***************************************************************************)
(* The entity pool alone: generate_companies over larger pools, and        *)
(* _select_companies_for_scenario called with any number of items          *)
(***************************************************************************)
\* largest pool generate_companies is checked with
MaxCompanies == 11

\* largest pool companies are selected from
MaxSelectPool == 3

\* largest n_items of a selection
MaxSelectItems == 7

\* a configuration that requests no scenario, with a pool of p companies
PoolConfig(p) ==
    [perfect_1_1 |-> 0, installments_1_n |-> 0, group_payment_n_1 |-> 0,
     standalone_invoices |-> 0, standalone_payments |-> 0,
     num_companies |-> p, batch_size |-> 1]

InitCompanies ==
    /\ config \in {PoolConfig(p) : p \in 0..MaxCompanies}
    /\ pc = "start"
    /\ Idle
    /\ NoUnit
    /\ NoMain
    /\ f_in = << >>
    /\ f_out = << >>

SpecCompanies == InitCompanies /\ [][Construct]_vars

InitSelect ==
    /\ config \in {PoolConfig(p) : p \in 1..MaxSelectPool}
    /\ pc = "start"
    /\ Idle
    /\ NoMain
    /\ gw = << >>
    /\ n_items \in 0..MaxSelectItems
    /\ f_in = << >>
    /\ f_out = << >>

\* self._select_companies_for_scenario(n_items) on the constructed generator
select_companies ==
    /\ pc = "ready"
    /\ \E sel \in select_companies_for_scenario(companies, n_items) :
          companies_to_use' = sel
    /\ pc' = "selected"
    /\ UNCHANGED << config, exc, companies, step, calls, todo, fatture, transazioni,
                    ground_truth, dummy_invoices, splits, allVars, dataset, next_id,
                    ctorVars, mainVars, unitVars >>

NextSelect ==
    \/ Construct
    \/ select_companies

SpecSelect == InitSelect /\ [][NextSelect]_vars

(***************************************************************************)
(* Batching alone: generate_dataset with standalone invoices only, over    *)
(* larger counts and every batch_size up to the count                      *)
(***************************************************************************)
\* the largest number of standalone invoices asked for
MaxBatchCount == 4

\* the largest pool of the batched runs
MaxBatchPool == 2

\* the largest batch_size of the batched runs
MaxChunk == 3

InitBatch ==
    /\ config \in {[PoolConfig(p) EXCEPT !.standalone_invoices = n, !.batch_size = b]
                   : p \in 1..MaxBatchPool, n \in 0..MaxBatchCount, b \in 1..MaxChunk}
    /\ pc = "start"
    /\ Idle
    /\ NoUnit
    /\ NoMain
    /\ f_in = << >>
    /\ f_out = << >>

NextBatch ==
    \/ Construct
    \/ generate_dataset_begin
    \/ scenario_call
    \/ standalone_invoices_batch
    \/ scenario_return
    \/ generate_dataset_end

SpecBatch == InitBatch /\ [][NextBatch]_vars

(***************************************************************************)
(* The Fattura constructor alone                                           *)
(***************************************************************************)
\* the datetimes of issuance: every tick of the days DueDaySpan ..
\* DueDaySpan + MaxIssueDay
IssueTimes == Days(DueDaySpan)..(Days(DueDaySpan + MaxIssueDay + 1) - 1)

\* the due datetimes tried for an issuance: DueDaySpan days around the
\* issuance and around the end of the window
DueTimes(data_emissione) ==
    ((data_emissione - Days(DueDaySpan))..(data_emissione + Days(DueDaySpan)))
    \cup ((data_emissione + Days(MaxScadenzaDays - DueDaySpan))
           ..(data_emissione + Days(MaxScadenzaDays + DueDaySpan)))

\* the arguments of Fattura(...): importo zero or positive
FatturaInputs ==
    UNION { { [data_emissione |-> em, data_scadenza |-> due, importo |-> a]
              : due \in DueTimes(em), a \in {0, 1000} }
            : em \in IssueTimes }

InitFattura ==
    /\ config \in {cfg \in DatasetConfigs : Requested(cfg) = 0 /\ cfg.num_companies = 1
                                            /\ cfg.batch_size = 1}
    /\ pc = "Fattura"
    /\ Idle
    /\ NoUnit
    /\ NoMain
    /\ f_in \in FatturaInputs
    /\ f_out = <<>>

\* Fattura(id=uuid4(), data_emissione=..., data_scadenza=..., importo=..., ...)
construct_fattura ==
    /\ pc = "Fattura"
    /\ LET r == Fattura(next_id, f_in.data_emissione, f_in.data_scadenza,
                        f_in.importo, 1)
       IN  /\ f_out' = r
           /\ exc' = r.exc
           /\ pc' = IF r.exc # "none" THEN "raised" ELSE "done"
    /\ next_id' = next_id + 1
    /\ UNCHANGED << config, companies, step, calls, genVars, allVars, dataset, f_in,
                    mainVars, unitVars >>

SpecFattura == InitFattura /\ [][construct_fattura]_vars

(***************************************************************************)
(* Vocabulary of the properties                                            *)
(***************************************************************************)
\* the sum of v[i] over the indices i of S
RECURSIVE SetSum(_, _)
SetSum(S, v) ==
    IF S = {}
    THEN 0
    ELSE LET x == CHOOSE y \in S : TRUE IN v[x] + SetSum(S \ {x}, v)

\* the scenario generator called last
LastCall == IF calls = <<>> THEN "none" ELSE calls[Len(calls)]

\* generator s ran to its return statement: fatture, transazioni and
\* ground_truth are what it returns
Finished(s) ==
    /\ LastCall = s
    /\ todo = <<>>
    /\ pc \in {s, "generate_dataset", "done"}

\* the indices of the ground truth rows of gts that reference an invoice / a
\* payment by the text of its id
RowsOfInvoice(gts, f) == {k \in 1..Len(gts) : gts[k].fattura_id = UuidStr(f.id)}

RowsOfPayment(gts, t) == {k \in 1..Len(gts) : gts[k].pagamento_id = UuidStr(t.id)}

\* every invoice constructed so far, returned or not
AllInvoices == Range(fatture) \cup Range(all_fatture) \cup Range(dummy_invoices)

\* c is importo / total * payment to the nearest mill
Proportional(c, importo, total, payment) ==
    LET r == Ratio(importo, total)
    IN  2 * Abs(c * r.den - r.num * payment) <= r.den

(***************************************************************************)
(* Properties                                                              *)
(***************************************************************************)
\* C1: a run of the perfect 1:1 generator for n pairs does not raise, and
\* returns n invoices, n payments and n ground truth rows; every invoice is
\* referenced by exactly one row, which is exact with confidence 1.0, covers
\* the invoice amount, and pairs it with a payment of the same amount
C1_PerfectPairs ==
    LastCall = "perfect_1_1" =>
        /\ exc = "none"
        /\ Finished("perfect_1_1") =>
              /\ Len(fatture) = config.perfect_1_1
              /\ Len(transazioni) = config.perfect_1_1
              /\ Len(ground_truth) = config.perfect_1_1
              /\ \A f \in Range(fatture) :
                    /\ Cardinality(RowsOfInvoice(ground_truth, f)) = 1
                    /\ \A k \in RowsOfInvoice(ground_truth, f) :
                          /\ ground_truth[k].match_type = "exact"
                          /\ ground_truth[k].confidence = 100
                          /\ ground_truth[k].amount_covered = f.importo
                          /\ \E t \in Range(transazioni) :
                                /\ UuidStr(t.id) = ground_truth[k].pagamento_id
                                /\ t.importo = f.importo

\* C2: every invoice a scenario generator constructs (batch invoices, group
\* invoices, dummy invoices) has issuance <= due <= issuance + 90 days
C2_DueWithin90Days ==
    \A f \in AllInvoices :
        /\ f.data_emissione <= f.data_scadenza
        /\ f.data_scadenza <= f.data_emissione + 90 * TicksPerDay

\* C2, its case: a run holds a returned invoice due exactly 90 days after its
\* issuance, a returned invoice due earlier, and a dummy invoice
C2_Witness ==
    /\ dummy_invoices # <<>>
    /\ \E f \in Range(all_fatture) :
          f.data_scadenza = f.data_emissione + 90 * TicksPerDay
    /\ \E f \in Range(all_fatture) :
          f.data_scadenza < f.data_emissione + 90 * TicksPerDay

\* C3 as stated: n installments of round(A / n, 2) sum to A within one cent
C3_OneCentResidual ==
    \A sp \in Range(splits) :
        Abs(sp.n_installments * sp.installment_amount - sp.importo) <= CentMills

\* C3: for every invoice the installment generator splits, n is 2, 3 or 4
\* and n installments of round(A / n, 2) sum to A within half a cent per
\* installment
C3_HalfCentPerInstallment ==
    \A sp \in Range(splits) :
        /\ sp.n_installments \in {2, 3, 4}
        /\ 2 * Abs(sp.n_installments * sp.installment_amount - sp.importo)
              <= sp.n_installments * CentMills

\* C3, its case: a split whose installments miss the amount by more than a cent
C3_Witness ==
    \E sp \in Range(splits) :
        Abs(sp.n_installments * sp.installment_amount - sp.importo) > CentMills

\* C4: a run of the installment generator does not raise, and for each of its
\* invoices the ground truth holds one row per installment payment (2, 3 or
\* 4), each row on a payment of its own, exact with confidence 1.0 and
\* covering that payment's amount
C4_InstallmentRows ==
    LastCall = "installments_1_n" =>
        /\ exc = "none"
        /\ Finished("installments_1_n") =>
              /\ Len(fatture) = config.installments_1_n
              /\ Len(ground_truth) = Len(transazioni)
              /\ \A f \in Range(fatture) :
                    /\ Cardinality(RowsOfInvoice(ground_truth, f)) \in {2, 3, 4}
                    /\ \A k \in RowsOfInvoice(ground_truth, f) :
                          /\ ground_truth[k].match_type = "exact"
                          /\ ground_truth[k].confidence = 100
                          /\ \E t \in Range(transazioni) :
                                /\ UuidStr(t.id) = ground_truth[k].pagamento_id
                                /\ RowsOfPayment(ground_truth, t) = {k}
                                /\ ground_truth[k].amount_covered = t.importo

\* C5: while the group payment generator runs and when it returns, the
\* ground truth holds exactly one row per invoice, partial with confidence
\* 0.85; every payment is referenced by the rows of 2 to 5 invoices of one
\* company, and each of these rows covers invoice amount / group total *
\* payment amount; amounts 100, 200, 300 under a payment of 600 are covered
\* by 100, 200, 300
C5_GroupRows ==
    /\ << amount_covered(100000, 600000, 600000),
          amount_covered(200000, 600000, 600000),
          amount_covered(300000, 600000, 600000) >>
         = << 100000, 200000, 300000 >>
    /\ (LastCall = "group_payment_n_1" /\ pc # "raised") =>
          /\ Len(ground_truth) = Len(fatture)
          /\ Len(transazioni) = config.group_payment_n_1 - Len(todo)
          /\ \A i \in 1..Len(fatture) :
                /\ RowsOfInvoice(ground_truth, fatture[i]) = {i}
                /\ ground_truth[i].match_type = "partial"
                /\ ground_truth[i].confidence = 85
                /\ \E t \in Range(transazioni) :
                      UuidStr(t.id) = ground_truth[i].pagamento_id
          /\ \A t \in Range(transazioni) :
                LET group == RowsOfPayment(ground_truth, t)
                    total == SetSum(group, [i \in 1..Len(fatture) |-> fatture[i].importo])
                IN  /\ Cardinality(group) \in 2..5
                    /\ \A i \in group :
                          /\ fatture[i].prestatore = t.controparte
                          /\ Proportional(ground_truth[i].amount_covered,
                                          fatture[i].importo, total, t.importo)

\* C5, its case: a returned group of three invoices of 200, 400 and 600 paid
\* two percent short
C5_Witness ==
    /\ Finished("group_payment_n_1")
    /\ Len(fatture) = 3
    /\ [i \in 1..3 |-> fatture[i].importo] = << 200000, 400000, 600000 >>
    /\ transazioni[1].importo = 1176000
    /\ [i \in 1..3 |-> ground_truth[i].amount_covered] = << 196000, 392000, 588000 >>

\* C6: for every group payment, the amounts covered by the rows that
\* reference it add up to the amount of the payment, to within the rounding
\* of each row
C6_CoveredSumsToPayment ==
    (LastCall = "group_payment_n_1" /\ pc # "raised") =>
        \A t \in Range(transazioni) :
            LET group == RowsOfPayment(ground_truth, t)
                covered == SetSum(group, [i \in 1..Len(ground_truth) |->
                                             ground_truth[i].amount_covered])
            IN  /\ group # {}
                /\ 2 * Abs(covered - t.importo) <= Cardinality(group)

\* C6, its case: a returned group of five invoices paid two percent over
C6_Witness ==
    /\ Finished("group_payment_n_1")
    /\ \E t \in Range(transazioni) :
          /\ Cardinality(RowsOfPayment(ground_truth, t)) = 5
          /\ t.importo > SetSum(RowsOfPayment(ground_truth, t),
                                [i \in 1..Len(fatture) |-> fatture[i].importo])

\* C7: the standalone invoice generator returns n invoices, no payment and
\* no ground truth row; the standalone payment generator returns n payments,
\* no invoice and no ground truth row; no ground truth row references a
\* standalone invoice or payment, and no dummy invoice is among the invoices
C7_Standalone ==
    /\ LastCall = "standalone_invoices" =>
          /\ exc = "none"
          /\ Finished("standalone_invoices") =>
                /\ Len(fatture) = config.standalone_invoices
                /\ transazioni = <<>>
                /\ ground_truth = <<>>
    /\ LastCall = "standalone_payments" =>
          /\ exc = "none"
          /\ Finished("standalone_payments") =>
                /\ Len(transazioni) = config.standalone_payments
                /\ fatture = <<>>
                /\ ground_truth = <<>>
                /\ \A t \in Range(transazioni) :
                      RowsOfPayment(all_ground_truth, t) = {}
    /\ \A i \in 1..Len(all_fatture) :
          origin[i] = "standalone_invoices" =>
              RowsOfInvoice(all_ground_truth, all_fatture[i]) = {}
    /\ \A d \in Range(dummy_invoices) :
          \A f \in Range(fatture) \cup Range(all_fatture) : f.id # d.id

\* C8: in a returned dataset every invoice of the perfect 1:1, installment or
\* group payment generator is referenced by a ground truth row, and every
\* ground truth row references an invoice and a payment of the dataset
C8_DatasetReferences ==
    pc = "done" =>
        /\ Len(origin) = Len(dataset.fatture)
        /\ \A i \in 1..Len(dataset.fatture) :
              origin[i] \in {"perfect_1_1", "installments_1_n", "group_payment_n_1"} =>
                  RowsOfInvoice(dataset.ground_truth, dataset.fatture[i]) # {}
        /\ \A g \in Range(dataset.ground_truth) :
              /\ \E f \in Range(dataset.fatture) : UuidStr(f.id) = g.fattura_id
              /\ \E t \in Range(dataset.transazioni) : UuidStr(t.id) = g.pagamento_id

\* C8, its case: a returned dataset with the invoices of a group payment and
\* a standalone invoice
C8_Witness ==
    /\ pc = "done"
    /\ dataset.ground_truth # <<>>
    /\ \E i \in 1..Len(origin) : origin[i] = "group_payment_n_1"
    /\ \E i \in 1..Len(origin) : origin[i] = "standalone_invoices"

C10_ConfigChecked ==
    pc # "start" =>
        LET total == config.perfect_1_1 + config.installments_1_n
                     + 3 * config.group_payment_n_1 + config.standalone_invoices
            needed == IF total \div 10 > 1 THEN total \div 10 ELSE 1
        IN  IF config.num_companies < needed
            THEN /\ pc = "raised"
                 /\ exc = "ValueError"
                 /\ companies = <<>>
                 /\ next_id = 1
                 /\ AllInvoices = {}
                 /\ all_transazioni = <<>>
            ELSE /\ pc = "ready"
                 /\ exc = "none"
                 /\ Len(companies) = config.num_companies
                 /\ Cardinality({companies[i].id : i \in 1..Len(companies)})
                       = config.num_companies

\* C10, its case: a refused pool of two companies, and an accepted pool that
\* is larger than the number of invoices
C10_Witness ==
    \/ /\ pc = "raised"
       /\ config.num_companies = 2
    \/ /\ pc = "ready"
       /\ config.num_companies > config.perfect_1_1 + config.installments_1_n
                                 + 3 * config.group_payment_n_1
                                 + config.standalone_invoices

\* the precheck must refuse the target i of the file system f: no directory,
\* not a directory, a directory that is not writable, or a target that
\* exists and is not a writable regular file
Refused(f, i) ==
    \/ f.dir \in {"missing", "not_a_directory", "read_only"}
    \/ f.files[i] \in {"not_a_file", "read_only"}

\* nothing of the generator has happened: it was not constructed, no
\* scenario generator was called, no dataset was returned or exported
NothingGenerated ==
    /\ pc = "main"
    /\ companies = <<>>
    /\ calls = <<>>
    /\ next_id = 1
    /\ AllInvoices = {}
    /\ all_transazioni = <<>>
    /\ dataset = <<>>
    /\ exported = {}

\* C11: check_write_permission returns false when the directory of the
\* target does not exist, is not a directory or is not writable, and when the
\* target exists but is not a writable regular file; in main a false result
\* for any of the three output files ends the run with the assertion error
\* before the generator is constructed, before generate_dataset runs and
\* before anything is exported
C11_PrecheckAborts ==
    /\ \A i \in 1..Len(OutputPaths) :
          Refused(fs, i) => ~check_write_permission(fs, i)
    /\ (main_pc # "precheck" /\ \E i \in 1..Len(OutputPaths) : Refused(fs, i))
          => /\ main_pc = "raised"
             /\ exc = "AssertionError"
             /\ NothingGenerated

\* C11, its case: main has stopped on a missing output directory, and on an
\* existing output file that is not writable
C11_Witness ==
    /\ main_pc = "raised"
    /\ exc = "AssertionError"
    /\ \/ fs.dir = "missing"
       \/ fs.dir = "writable" /\ fs.files[Len(OutputPaths)] = "read_only"

\* C12: once a scenario generator has raised during generate_dataset, no
\* dataset is returned, not even the tables of the scenarios that completed,
\* the export never runs and no output file is written; main ends with the
\* exception the generator raised
C12_NoPartialDataset ==
    (main_pc # "none" /\ pc = "raised" /\ calls # <<>>)
        => /\ dataset = <<>>
           /\ exported = {}
           /\ main_pc \in {"run", "raised"}
           /\ exc \notin {"none", "AssertionError", "EnvironmentConfigError"}

\* C12, its case: a scenario generator raised after an earlier scenario had
\* completed and left its records in the tables, and main has ended
C12_Witness ==
    /\ main_pc = "raised"
    /\ pc = "raised"
    /\ Len(calls) >= 2
    /\ all_fatture # <<>> \/ all_transazioni # <<>>
    /\ dataset = <<>>

\* C13: when the precheck has passed and the environment file cannot be
\* loaded or the API key is missing, main ends with the environment
\* configuration error before the generator is constructed and before any
\* scenario generator runs; no dataset is generated or exported
C13_EnvironmentChecked ==
    ( /\ main_pc \notin {"none", "precheck", "environment"}
      /\ \A i \in 1..Len(OutputPaths) : ~Refused(fs, i)
      /\ ~env.dotenv \/ ~env.api_key )
        => /\ main_pc = "raised"
           /\ exc = "EnvironmentConfigError"
           /\ NothingGenerated

\* C13, its case: the environment file was loaded and the key is missing,
\* and the environment file could not be loaded although the key is set
C13_Witness ==
    /\ main_pc = "raised"
    /\ exc = "EnvironmentConfigError"
    /\ env.dotenv # env.api_key

\* the scenarios the configuration asks for, in the order of the
\* specification: perfect 1:1, installments, group payment, standalone
\* invoices, standalone payments
Configured ==
    SelectSeq(<< "perfect_1_1", "installments_1_n", "group_payment_n_1",
                 "standalone_invoices", "standalone_payments" >>,
              LAMBDA s : config[s] > 0)

\* the position of a scenario in that order
OrderIndex(s) ==
    CASE s = "perfect_1_1" -> 1
      [] s = "installments_1_n" -> 2
      [] s = "group_payment_n_1" -> 3
      [] s = "standalone_invoices" -> 4
      [] s = "standalone_payments" -> 5

\* C14: generate_dataset calls only the scenario generators whose configured
\* count is positive, in the order perfect 1:1, installments, group payment,
\* standalone invoices, standalone payments, none of them skipped or called
\* twice; it returns once all of them have returned; each table grows only
\* by the records a generator returns, appended behind the records of the
\* earlier scenarios, so that the records of an earlier scenario precede
\* those of a later one
C14_FixedOrder ==
    /\ [](/\ Len(calls) <= Len(Configured)
          /\ \A i \in 1..Len(calls) : calls[i] = Configured[i]
          /\ pc = "done" => calls = Configured
          /\ Len(origin) = Len(all_fatture)
          /\ \A i, j \in 1..Len(origin) :
                i < j => OrderIndex(origin[i]) <= OrderIndex(origin[j]))
    /\ [][<< all_fatture, all_transazioni, all_ground_truth >>'
             # << all_fatture, all_transazioni, all_ground_truth >>
          => /\ pc = LastCall
             /\ all_fatture' = all_fatture \o fatture
             /\ all_transazioni' = all_transazioni \o transazioni
             /\ all_ground_truth' = all_ground_truth \o ground_truth]_vars

\* C14, its case: a dataset returned after the group payment generator and
\* the standalone invoice generator, the only two configured, have both added
\* invoices to the table
C14_Witness ==
    /\ pc = "done"
    /\ calls = << "group_payment_n_1", "standalone_invoices" >>
    /\ config.perfect_1_1 = 0
    /\ config.installments_1_n = 0
    /\ config.standalone_payments = 0
    /\ \E i, j \in 1..Len(dataset.fatture) :
          /\ i < j
          /\ origin[i] = "group_payment_n_1"
          /\ origin[j] = "standalone_invoices"

\* the payment-text operations of the Gateway
PaymentTextOps == {"generate_transaction_data_batch", "generate_transaction_data"}

\* the limit of attempts of the operation in progress
StopOf(op) == IF op = "generate_transaction_data_batch" THEN 5 ELSE 3

\* the first four characters of a date text
SubSeq4(d) == IF d = "2024-03-01" THEN "2024" ELSE "2025"

\* the chain an input is sent to
ChainOf(input) == IF input.include_invoice_number THEN "with" ELSE "without"

\* C15: when a payment-text batch call has returned, there is one result per
\* item, is_fallback is true for exactly the items the Gateway did not
\* synthesize a text for, and an item whose text was synthesized keeps that
\* text with is_fallback = false
C15_FallbackExactlyFailed ==
    (gw.op = "generate_transaction_data_batch" /\ gw.pc = "returned")
        => /\ Len(gw.results) = Len(gw.items)
           /\ \A i \in 1..Len(gw.items) :
                 /\ gw.results[i].is_fallback = (i \notin gw.synthesized)
                 /\ i \in gw.synthesized
                       => /\ gw.results[i].dettaglio
                                = Synthesized(ChainOf(gw.items[i]), gw.items[i]).dettaglio
                          /\ gw.results[i].causale
                                = Synthesized(ChainOf(gw.items[i]), gw.items[i]).causale

\* C16: every call of the Gateway returns; a payment-text call makes at most
\* 5 attempts per batch chain and 3 for a single item, repeats an attempt
\* only after a rate-limit error, and returns one result per item; after
\* the last permitted attempt has failed, or after any other error, it has
\* returned fallback results
C16_BoundedRetry ==
    /\ <>(gw.pc = "returned")
    /\ [](gw.op \in PaymentTextOps =>
            /\ gw.attempts <= StopOf(gw.op)
            /\ gw.last \notin {"none", "ok", "RateLimitError"} => gw.pc = "returned"
            /\ (gw.last = "RateLimitError" /\ gw.attempts = StopOf(gw.op))
                  => gw.pc = "returned"
            /\ gw.pc = "returned" =>
                  /\ Len(gw.results) = Len(gw.items)
                  /\ \A i \in 1..Len(gw.items) : gw.results[i] # NoneResult
                  /\ gw.last \notin {"none", "ok"} =>
                        \A i \in 1..Len(gw.items) :
                            /\ gw.results[i].is_fallback
                            /\ gw.results[i].error = gw.last)
    /\ [][(/\ gw.op \in PaymentTextOps
           /\ gw.pc \in {"with", "without", "invoke"}
           /\ gw'.pc = gw.pc)
          => /\ gw'.last = "RateLimitError"
             /\ gw'.attempts = gw.attempts + 1
             /\ gw'.attempts < StopOf(gw.op)]_vars

\* C16, its case: a batch call that returned fallback results after its
\* fifth attempt hit the rate limit, and a single call after its third
C16_Witness ==
    /\ gw.pc = "returned"
    /\ gw.last = "RateLimitError"
    /\ \/ gw.op = "generate_transaction_data_batch" /\ gw.attempts = 5
       \/ gw.op = "generate_transaction_data" /\ gw.attempts = 3
    /\ \A i \in 1..Len(gw.items) : gw.results[i].is_fallback

\* C17: a batch operation of the Gateway that has returned has one result
\* per input, result i is the one of input i (the synthesized text asked for
\* input i, or the fallback built from the fields of input i), and for
\* payment text the echoed include_invoice_number of result i is the flag of
\* input i
C17_ResultsInInputOrder ==
    gw.pc = "returned" =>
        /\ Len(gw.results) = Len(gw.items)
        /\ \A i \in 1..Len(gw.items) :
              IF gw.op \in PaymentTextOps
              THEN /\ gw.results[i].include_invoice_number
                         = gw.items[i].include_invoice_number
                   /\ IF gw.results[i].is_fallback
                      THEN /\ gw.results[i].controparte
                                 = << gw.items[i].fattura.prestatore >>
                           /\ gw.items[i].include_invoice_number
                                 => gw.results[i].causale
                                       = << "Pagamento fattura ",
                                            gw.items[i].fattura.numero_fattura >>
                      ELSE /\ gw.results[i].dettaglio
                                 = << "dettaglio", ChainOf(gw.items[i]),
                                      gw.items[i].fattura.numero_fattura >>
                           /\ gw.results[i].controparte
                                 = << "controparte", ChainOf(gw.items[i]),
                                      gw.items[i].fattura.prestatore >>
              ELSE IF gw.last = "ok"
              THEN gw.results[i].descrizione
                      = << "descrizione", gw.items[i].tipo_servizio,
                           gw.items[i].data_emissione >>
              ELSE /\ gw.results[i].numero_fattura[2]
                         = SubSeq4(gw.items[i].data_emissione)
                   /\ gw.items[i].tipo_servizio # "Consulting"
                         => gw.results[i].descrizione[2] = gw.items[i].tipo_servizio

\* C17, its case: a payment batch of two different invoices whose first item
\* goes to the chain called second has returned the synthesized texts
C17_Witness ==
    /\ gw.pc = "returned"
    /\ Len(gw.items) = 2
    /\ gw.items[1] # gw.items[2]
    /\ gw.op = "generate_transaction_data_batch"
    /\ ~gw.items[1].include_invoice_number
    /\ gw.items[2].include_invoice_number
    /\ gw.items[1].fattura # gw.items[2].fattura
    /\ gw.last = "ok"

\* C18: the fallback results of the Gateway are functions of the input
\* fields: in a call that returned fallbacks, two items with identical input
\* fields have identical results
C18_FallbackDeterministic ==
    (gw.pc = "returned" /\ gw.last \notin {"none", "ok"})
        => \A i, j \in 1..Len(gw.items) :
              gw.items[i] = gw.items[j] => gw.results[i] = gw.results[j]

\* how often company c occurs among the first k entries of sel
Usage(sel, k, c) == Cardinality({i \in 1..k : sel[i] = c})

\* C19: for a pool of p >= 1 companies and any n >= 0 the selection returns;
\* it returns exactly n companies, all from the pool, and leaves the pool as
\* it was; when n <= p the returned companies are pairwise distinct; every
\* company of the pool appears floor(n/p) or ceil(n/p) times, and in every
\* prefix of the result the usage counts of two companies differ by at most 1
C19_EvenSelection ==
    /\ [](pc = "ready" => ENABLED select_companies)
    /\ [][pc = "ready" => companies' = companies]_vars
    /\ [](pc = "selected" =>
            LET p == Len(companies)
                n == n_items
                pool == {companies[i].id : i \in 1..p}
                sel == companies_to_use
            IN  /\ p = config.num_companies
                /\ Cardinality(pool) = p
                /\ Len(sel) = n
                /\ \A i \in 1..n : sel[i] \in pool
                /\ n <= p => \A i, j \in 1..n : i # j => sel[i] # sel[j]
                /\ \A c \in pool :
                      /\ Usage(sel, n, c) >= n \div p
                      /\ Usage(sel, n, c) <= (n + p - 1) \div p
                /\ \A k \in 0..n : \A c, d \in pool :
                      Usage(sel, k, c) - Usage(sel, k, d) <= 1)

\* C19, its case: seven companies selected from a pool of three, and two
\* selected from a pool of three
C19_Witness ==
    /\ pc = "selected"
    /\ Len(companies) = 3
    /\ Len(companies_to_use) \in {2, 7}
    /\ Len(companies_to_use) = 7 => Usage(companies_to_use, 7, companies_to_use[7]) = 3

\* how many of the first k companies have sector s
SectorUsage(k, s) == Cardinality({i \in 1..k : companies[i].settore = s})

\* C20: generate_companies(n) returns exactly n companies; the first
\* min(n, 8) companies have the 8 sectors one each in list order; every later
\* company has a sector that had the minimum count among the companies
\* before it; after every company added the per-sector counts differ by at
\* most 1
C20_SectorsBalanced ==
    pc = "ready" =>
        LET n == config.num_companies
        IN  /\ Len(companies) = n
            /\ \A i \in 1..n : companies[i].settore \in 1..8
            /\ \A i \in 1..n : i <= 8 => companies[i].settore = i
            /\ \A i \in 1..n : i > 8 =>
                  \A s \in 1..8 :
                      SectorUsage(i - 1, companies[i].settore) <= SectorUsage(i - 1, s)
            /\ \A k \in 0..n : \A s, t \in 1..8 :
                  SectorUsage(k, s) - SectorUsage(k, t) <= 1

\* C20, its case: a pool with companies of the second round, two of them in
\* sectors other than the first two of the list
C20_Witness ==
    /\ pc = "ready"
    /\ Len(companies) >= 10
    /\ companies[9].settore = 5
    /\ companies[10].settore = 3

\* the sum of amount_covered over the rows of gts that reference invoice f
CoveredOf(gts, f) ==
    SetSum(RowsOfInvoice(gts, f), [k \in 1..Len(gts) |-> gts[k].amount_covered])

\* C21: for every invoice of the tables of generate_dataset, and of the
\* dataset it returns, that ground truth rows reference, the amounts covered
\* by its rows add up to the invoice amount for a perfect 1:1 invoice, and
\* to between 0.98 and 1.02 times the invoice amount, to the nearest mill,
\* for an invoice of a group payment
C21_CoveredReconciles ==
    /\ Len(origin) = Len(all_fatture)
    /\ \A i \in 1..Len(all_fatture) :
          LET f == all_fatture[i]
              covered == CoveredOf(all_ground_truth, f)
          IN  RowsOfInvoice(all_ground_truth, f) # {} =>
                 /\ origin[i] \in {"perfect_1_1", "group_payment_n_1"}
                 /\ origin[i] = "perfect_1_1" => covered = f.importo
                 /\ origin[i] = "group_payment_n_1" =>
                       /\ 100 * covered >= 98 * f.importo - 50
                       /\ 100 * covered <= 102 * f.importo + 50
    /\ pc = "done" =>
          /\ dataset.fatture = all_fatture
          /\ dataset.ground_truth = all_ground_truth

\* C21, its case: a returned dataset with a group invoice covered two
\* percent short, and one with a group invoice covered two percent over
C21_Witness ==
    /\ pc = "done"
    /\ \E i \in 1..Len(dataset.fatture) :
          /\ origin[i] = "group_payment_n_1"
          /\ 100 * CoveredOf(dataset.ground_truth, dataset.fatture[i])
                \in {98 * dataset.fatture[i].importo, 102 * dataset.fatture[i].importo}

\* the invoices the rows of payment t reference
GroupOf(fs_, gts, t) ==
    {f \in Range(fs_) : RowsOfInvoice(gts, f) \cap RowsOfPayment(gts, t) # {}}

\* C22: for every group payment, the payment date is not earlier than the
\* latest due date of the invoices of its group and at most 15 days later;
\* it is not earlier than the due date, nor than the issuance date, of any
\* invoice of the group
C22_GroupPaymentDate ==
    (LastCall = "group_payment_n_1" /\ pc # "raised") =>
        \A t \in Range(transazioni) :
            LET group == GroupOf(fatture, ground_truth, t)
            IN  /\ group # {}
                /\ \E f \in group :
                      /\ \A g \in group : g.data_scadenza <= f.data_scadenza
                      /\ f.data_scadenza <= t.data
                      /\ t.data <= f.data_scadenza + 15 * TicksPerDay
                /\ \A f \in group :
                      /\ f.data_scadenza <= t.data
                      /\ f.data_emissione <= t.data

\* C22, its case: a returned group whose first invoice is not the one due
\* last, paid 15 days after the latest due date
C22_Witness ==
    /\ Finished("group_payment_n_1")
    /\ transazioni # << >>
    /\ \E f \in Range(fatture) :
          /\ f.data_scadenza > fatture[1].data_scadenza
          /\ transazioni[1].data = f.data_scadenza + 15 * TicksPerDay

\* the payments the rows of gts give to invoice f
LegsOfInvoice(ts, gts, f) ==
    {t \in Range(ts) : RowsOfInvoice(gts, f) \cap RowsOfPayment(gts, t) # {}}

\* C23: every invoice of the installment generator has 2, 3 or 4 legs, each
\* a payment of its own, dated 30, 60, ... days after the issuance date of
\* the invoice: consecutive legs are 30 days apart and none is dated before
\* the issuance date
C23_InstallmentDates ==
    LastCall = "installments_1_n" =>
        \A f \in Range(fatture) :
            LET legs == LegsOfInvoice(transazioni, ground_truth, f)
                n == Cardinality(legs)
            IN  /\ n \in {2, 3, 4}
                /\ {t.data : t \in legs}
                      = {f.data_emissione + 30 * k * TicksPerDay : k \in 1..n}
                /\ \A t \in legs : t.data > f.data_emissione

\* every ground truth row built so far
AllRows ==
    Range(ground_truth) \cup Range(all_ground_truth)
    \cup (IF pc = "done" THEN Range(dataset.ground_truth) ELSE {})

\* C27: every ground truth row, of a generator, of the tables and of the
\* returned dataset, has a confidence between 0 and 1, one of the four match
\* types and a strictly positive amount covered; it is exact with confidence
\* 1.0 or partial with confidence 0.85
C27_RowsWellFormed ==
    \A gt \in AllRows :
        /\ gt.confidence >= 0
        /\ gt.confidence <= 100
        /\ gt.match_type \in {"exact", "partial", "related", "unrelated"}
        /\ gt.amount_covered > 0
        /\ << gt.match_type, gt.confidence >> \in {<< "exact", 100 >>, << "partial", 85 >>}

\* C27, its case: a returned dataset with the rows of a group payment
C27_Witness ==
    /\ pc = "done"
    /\ Len(dataset.ground_truth) >= 2
    /\ \A k \in 1..Len(dataset.ground_truth) :
          /\ dataset.ground_truth[k].match_type = "partial"
          /\ dataset.ground_truth[k].confidence = 85

\* the text embeds the invoice numbers of exactly the invoices of group
EmbedsNumbers(text, group) ==
    /\ text.text \in {"BONIFICO SEPA - Pagamento fatture n. ", "Pagamento fatture "}
    /\ Range(text.refs) = {f.id : f \in group}

\* C29: for every group payment, the flag invoice_number is true only if the
\* detail and the reason embed the invoice numbers of the invoices of the
\* group; the payment of a group of more than 3 invoices, whose texts carry
\* a period reference, has the flag false
C29_ReferenceFlag ==
    (LastCall = "group_payment_n_1" /\ pc # "raised") =>
        \A t \in Range(transazioni) :
            LET group == GroupOf(fatture, ground_truth, t)
            IN  /\ t.invoice_number =>
                      /\ EmbedsNumbers(t.dettaglio, group)
                      /\ EmbedsNumbers(t.causale, group)
                /\ Cardinality(group) > 3 => ~t.invoice_number

\* the payments a returned call of a pattern applier has produced
Produced ==
    IF gw.out.exc # "none" THEN << >>
    ELSE IF gw.op = "generate_payment" THEN << gw.out.value >>
    ELSE gw.out.value

\* C24: generate_payment and _generate_payments_batch return one payment per
\* invoice, dated 0 to 90 days after the issuance date of the invoice for
\* STANDARD, 91 to 180 days after it for DELAYED, 30 to 1 days before it for
\* EARLY, and on it for SAME_DAY
C24_TimingOffsets ==
    gw.pc = "returned" =>
        /\ gw.out.exc = "none"
        /\ Len(Produced) = Len(gw.fatture)
        /\ \A i \in 1..Len(Produced) :
              LET offset == Produced[i].data - gw.fatture[i].data_emissione
              IN  CASE gw.timing_pattern = "standard" ->
                          0 <= offset /\ offset <= 90 * TicksPerDay
                    [] gw.timing_pattern = "delayed" ->
                          91 * TicksPerDay <= offset /\ offset <= 180 * TicksPerDay
                    [] gw.timing_pattern = "early" ->
                          -30 * TicksPerDay <= offset /\ offset <= -1 * TicksPerDay
                    [] gw.timing_pattern = "same_day" -> offset = 0

\* C25: generate_payment and _generate_payments_batch return one payment per
\* invoice, of the amount B of the invoice for EXACT, between 0.3 B and 0.8 B
\* for PARTIAL, 1.01 B and 1.1 B for EXCESS, 0.9 B and 0.98 B for DISCOUNT,
\* 1.02 B and 1.05 B for PENALTY
C25_AmountFactors ==
    gw.pc = "returned" =>
        /\ Len(Produced) = Len(gw.fatture)
        /\ gw.out.exc = "none"
        /\ \A i \in 1..Len(Produced) :
              LET paid == 100 * Produced[i].importo
                  base == gw.fatture[i].importo
              IN  CASE gw.amount_pattern = "exact" -> paid = 100 * base
                    [] gw.amount_pattern = "partial" ->
                          30 * base <= paid /\ paid <= 80 * base
                    [] gw.amount_pattern = "excess" ->
                          101 * base <= paid /\ paid <= 110 * base
                    [] gw.amount_pattern = "discount" ->
                          90 * base <= paid /\ paid <= 98 * base
                    [] gw.amount_pattern = "penalty" ->
                          102 * base <= paid /\ paid <= 105 * base

\* C28: when generate_payment has been called and the Gateway has answered,
\* with the fallback or with a synthesized text, the call returns a payment,
\* and the payment carries a fallback flag that is true for the fallback and
\* false for the synthesized text
C28_FallbackFlagKept ==
    (gw.op = "generate_payment" /\ gw.pc = "returned") =>
        /\ Len(Produced) = 1
        /\ "is_fallback" \in DOMAIN Produced[1]
        /\ Produced[1].is_fallback = gw.data[1].is_fallback

\* every payment built so far
AllPayments ==
    Range(transazioni) \cup Range(all_transazioni)
    \cup (IF pc = "done" THEN Range(dataset.transazioni) ELSE {})

RECURSIVE Concat(_)
Concat(chunks) ==
    IF chunks = << >> THEN << >> ELSE Head(chunks) \o Concat(Tail(chunks))

\* the companies of the invoices, in the order of the invoices
Issuers(fs_) == [i \in 1..Len(fs_) |-> fs_[i].prestatore]

\* C30: whatever batch_size is, the standalone invoice generator processes
\* every selected company once and in the order of the selection: no chunk
\* is empty or longer than batch_size, the companies of the invoices emitted
\* so far followed by the chunks still to do are the selected list, which
\* has n companies; the generator returns n invoices and so does
\* generate_dataset, n = 0 included
C30_BatchingIsOptimisation ==
    /\ pc = "standalone_invoices" =>
          /\ Len(companies_to_use) = config.standalone_invoices
          /\ \A k \in 1..Len(todo) :
                Len(todo[k]) >= 1 /\ Len(todo[k]) <= config.batch_size
          /\ Issuers(fatture) \o Concat(todo) = companies_to_use
          /\ todo = << >> => Len(fatture) = config.standalone_invoices
    /\ pc = "done" =>
          /\ Len(dataset.fatture) = config.standalone_invoices
          /\ Issuers(dataset.fatture) = companies_to_use

\* C30, its case: three invoices asked for in batches of two: the first
\* batch is done, the second, of one company, is still to do
C30_Witness ==
    /\ pc = "standalone_invoices"
    /\ config.batch_size = 2
    /\ config.standalone_invoices = 3
    /\ Len(fatture) = 2
    /\ Len(todo) = 1
    /\ Len(todo[1]) = 1

====
